---- MODULE Spec2Model ----
(***************************************************************************)
(* Fair Developer Score analytics core: the forward-scan commit clusterer, *)
(* the preprocessor's noise filter, the effort scorer's per-batch share    *)
(* and dominance, and the per-author FDS aggregation.                      *)
(*                                                                         *)
(* A pandas DataFrame is a sequence of rows (records keyed by column       *)
(* name); adding a column extends every row.  Real-valued columns are      *)
(* fixed point or exact fractions, as noted where each is introduced.      *)
(***************************************************************************)
EXTENDS Integers, Sequences, FiniteSets, TLC

\* ------------------------------------------------------------------ bounds
\* Largest number of commits handed to the clusterer.
MaxLen == 3

\* Largest number of commits handed to the noise filter alone.
MaxNoiseRows == 1

\* Largest number of commits handed to the effort scorer alone.
MaxEffortRows == 2

\* Largest number of commits handed to the author aggregation alone.
MaxAggRows == 3

\* Largest number of scored commits handed to the contribution calculation.
MaxFdsRows == 3

\* Largest number of commits in the batch handed to the type priority alone.
MaxTypeRows == 2

\* Largest number of commits handed to a preprocessor of any configuration.
MaxConfigRows == 2
MaxPipelineRows == 2

\* Longest vector handed to the MAD-Z normalization alone.
MaxVecLen == 4

\* Largest number of clustered commits handed to the preprocessing and effort
\* stages run in sequence.
MaxRunRows == 3

\* ------------------------------------------------------------------ state
VARIABLES
    pc,       \* the stage the run has reached
    cfg,      \* the configuration dictionary handed to the stages
    commits,  \* the commit records as given, in input order
    df,       \* the DataFrame flowing through the stages, a sequence of rows
    out,      \* the ranked author table once it has been computed; in the
              \* pipeline, its results as the last completed stage left them
    earlier,  \* what an earlier run on the same commits ended with
    processor,\* the DataProcessor instance: directory_graph, directory_centrality
    results   \* FDSPipeline.results: the outputs the stages have recorded

vars == <<pc, cfg, commits, df, out, earlier, processor, results>>

\* ------------------------------------------------------------------ helpers
Range(s) == {s[i] : i \in DOMAIN s}

Abs(x) == IF x < 0 THEN -x ELSE x

Min2(x, y) == IF x <= y THEN x ELSE y

\* Sum of column col over the rows of s (Series.sum()).
RECURSIVE ColSum(_, _)
ColSum(s, col) == IF s = <<>> THEN 0 ELSE Head(s)[col] + ColSum(Tail(s), col)

\* Values of a column in order of first appearance (Series.unique()).
RECURSIVE UniqueAcc(_, _, _)
UniqueAcc(s, col, acc) ==
    IF s = <<>> THEN acc
    ELSE IF \E i \in DOMAIN acc : acc[i] = Head(s)[col]
         THEN UniqueAcc(Tail(s), col, acc)
         ELSE UniqueAcc(Tail(s), col, Append(acc, Head(s)[col]))

Unique(s, col) == UniqueAcc(s, col, <<>>)

\* Insert row x into the sequence s, sorted on an integer key column
\* (descending if desc), after the rows of equal key.
RECURSIVE InsertByKey(_, _, _, _)
InsertByKey(x, s, col, desc) ==
    IF s = <<>> THEN <<x>>
    ELSE IF (IF desc THEN x[col] > Head(s)[col] ELSE x[col] < Head(s)[col])
         THEN <<x>> \o s
         ELSE <<Head(s)>> \o InsertByKey(x, Tail(s), col, desc)

RECURSIVE SortAcc(_, _, _, _)
SortAcc(s, col, desc, acc) ==
    IF s = <<>> THEN acc
    ELSE SortAcc(Tail(s), col, desc, InsertByKey(Head(s), acc, col, desc))

\* Stable sort of a table on an integer column: rows of equal key keep their
\* order.
StableSort(s, col, desc) == SortAcc(s, col, desc, <<>>)

Reverse(s) == [i \in 1..Len(s) |-> s[Len(s) + 1 - i]]

\* pandas' sort_values(col): DataFrame.sort_values sorts with kind='quicksort',
\* which orders the keys and promises nothing about rows of equal key: stable
\* tells whether the build at hand keeps them in their order or reverses it.
PandasSortValues(s, col, desc, stable) ==
    IF stable THEN StableSort(s, col, desc) ELSE StableSort(Reverse(s), col, desc)

\* Exact fractions for the ratios the scorers compute; den > 0.
Frac(n, d) == [num |-> n, den |-> d]

FracEq(f, g) == f.num * g.den = g.num * f.den

FracAdd(f, g) == Frac(f.num * g.den + g.num * f.den, f.den * g.den)

RECURSIVE FracSum(_)
FracSum(s) == IF s = <<>> THEN Frac(0, 1) ELSE FracAdd(Head(s), FracSum(Tail(s)))

\* ------------------------------------------------------------------ input
Authors == {"a@x", "b@x"}

\* The authors in the ascending order of their strings.
AuthorOrder == <<"a@x", "b@x">>

EmailRank(e) == CHOOSE i \in DOMAIN AuthorOrder : AuthorOrder[i] = e

\* commit_ts_utc is counted in half days; one day is DayUnits of them.
DayUnits == 2

\* A raw commit record as the CSV holds it; hash is the row's unique key.
RawRow(h, author, ts, ins, del, merge, dirs, ftypes, msg) ==
    [hash |-> h, author_email |-> author, commit_ts_utc |-> ts,
     insertions |-> ins, deletions |-> del, is_merge |-> merge,
     dirs_touched |-> dirs, file_types |-> ftypes, msg_subject |-> msg,
     files_changed |-> Len(dirs)]

\* ------------------------------------------------------------------ config
\* The defaults of the stages' _default_config dictionaries.  Noise factors
\* are in hundredths (0.1 -> 10), as are min_churn_for_edge (2 -> 200) and
\* pagerank_damping (0.85 -> 85) and min_batch_churn (1 -> 100);
\* contribution_threshold is in units of 0.00005 (0.01 -> 200).
DefaultConfig ==
    [alpha |-> 1, beta |-> 0, gap |-> 2,
     break_on_merge |-> TRUE, break_on_author |-> FALSE,
     vendor_noise_factor |-> 10, whitespace_noise_factor |-> 30,
     min_churn_for_edge |-> 200, pagerank_damping |-> 85,
     pagerank_iterations |-> 100,
     min_batch_size |-> 1, min_batch_churn |-> 100,
     time_window_days |-> 90, contribution_threshold |-> 200,
     stable_sort |-> TRUE]

\* DataProcessor.__init__: an empty graph and an empty centrality map.  The
\* graph is the map from its edges {dir1, dir2} to their weights.
NewProcessor == [directory_graph |-> <<>>, directory_centrality |-> <<>>]

\* ------------------------------------------------------------------ clusterer
\* Forward-scan clusterer, torque_cluster(df, alpha, beta, gap, break_on_merge,
\* break_on_author).

ValidClusterConfig(c) == c.alpha >= 0 /\ c.beta >= 0 /\ c.gap > 0

\* d = alpha * dt + beta * dloc of an adjacent pair (prev, cur).
Dissimilarity(prev, cur, c) ==
    c.alpha * (cur.commit_ts_utc - prev.commit_ts_utc)
    + c.beta * (Abs(cur.insertions - prev.insertions)
                + Abs(cur.deletions - prev.deletions))

\* BreakBatch with a strict threshold test (d > gap).
BreakBatchStrict(prev, cur, c) ==
    \/ Dissimilarity(prev, cur, c) > c.gap
    \/ (c.break_on_merge /\ cur.is_merge)
    \/ (c.break_on_author /\ cur.author_email # prev.author_email)

\* cur starts a new batch.
BreakBatch(prev, cur, c) ==
    \/ Dissimilarity(prev, cur, c) >= c.gap
    \/ (c.break_on_merge /\ cur.is_merge)
    \/ (c.break_on_author /\ cur.author_email # prev.author_email)

\* ScanIds with current_batch initialised to 1.
RECURSIVE ScanIdsFromOne(_, _, _)
ScanIdsFromOne(s, c, i) ==
    IF i = 0 THEN <<>>
    ELSE IF i = 1 THEN <<1>>
    ELSE LET ids == ScanIdsFromOne(s, c, i - 1)
         IN  Append(ids, IF BreakBatch(s[i - 1], s[i], c)
                         THEN ids[i - 1] + 1 ELSE ids[i - 1])

\* The scan: ids of the first i rows of the sorted stream s.
RECURSIVE ScanIds(_, _, _)
ScanIds(s, c, i) ==
    IF i = 0 THEN <<>>
    ELSE IF i = 1 THEN <<0>>
    ELSE LET ids == ScanIds(s, c, i - 1)
         IN  Append(ids, IF BreakBatch(s[i - 1], s[i], c)
                         THEN ids[i - 1] + 1 ELSE ids[i - 1])

\* The scan run without its author rule.
TorqueClusterIgnoringAuthor(table, c) ==
    LET s   == StableSort(table, "commit_ts_utc", FALSE)
        ids == ScanIds(s, [c EXCEPT !.break_on_author = FALSE], Len(s))
    IN  [i \in 1..Len(s) |-> s[i] @@ [batch_id |-> ids[i]]]

\* The clustered table: the stream in chronological order (ties in input
\* order), each row carrying its batch_id.
TorqueCluster(table, c) ==
    LET s   == StableSort(table, "commit_ts_utc", FALSE)
        ids == ScanIds(s, c, Len(s))
    IN  [i \in 1..Len(s) |-> s[i] @@ [batch_id |-> ids[i]]]

\* _run_torque_clustering: cluster the commits table.
RunTorqueClustering ==
    /\ pc = "commits"
    /\ IF ValidClusterConfig(cfg)
       THEN /\ df' = TorqueCluster(commits, cfg)
            /\ pc' = "clustered"
       ELSE /\ df' = df
            /\ pc' = "InvalidConfig"
    /\ UNCHANGED <<cfg, commits, out, earlier, processor, results>>

\* Inputs of the clusterer: a commit is small, large or a merge.
ClusterTs == {0, 2}

ClusterShapes == {<<0, 0, FALSE>>, <<1, 1, FALSE>>, <<0, 0, TRUE>>}

ClusterRows ==
    {RawRow(0, a, t, l[1], l[2], l[3], <<>>, <<>>, "msg") :
        a \in Authors, t \in ClusterTs, l \in ClusterShapes}

ClusterConfigs ==
    {[DefaultConfig EXCEPT !.alpha = c[1], !.beta = c[2], !.gap = c[3],
                           !.break_on_merge = c[4], !.break_on_author = c[5]] :
        c \in {<<1, 0, 2, FALSE, FALSE>>, <<0, 1, 2, FALSE, FALSE>>,
               <<1, 1, 4, TRUE, FALSE>>, <<0, 0, 1, FALSE, TRUE>>,
               <<1, 1, 3, TRUE, TRUE>>, <<1, 0, 0, TRUE, FALSE>>}}

\* The table of the rows f[1], ..., f[k]; hash = position in the input.
Table(f) == [i \in DOMAIN f |-> [f[i] EXCEPT !.hash = i]]

InitCluster ==
    /\ pc = "commits"
    /\ \E k \in 0..MaxLen : \E f \in [1..k -> ClusterRows] : commits = Table(f)
    /\ cfg \in ClusterConfigs
    /\ df = <<>>
    /\ out = <<>>
    /\ earlier = <<>>
    /\ processor = NewProcessor
    /\ results = <<>>

NextCluster == RunTorqueClustering

SpecCluster == InitCluster /\ [][NextCluster]_vars

\* The batch ids of the clustered table, in its chronological order.
BatchIds == [i \in 1..Len(df) |-> df[i].batch_id]

\* C1: the batch ids returned by the clusterer are exactly {0, ..., K-1} for
\* some K <= |commits|; along the chronological order the id starts at 0, never
\* decreases and never skips a value, so every batch is a contiguous interval
\* of the sorted stream.
C1_BatchIdsContiguous ==
    pc = "clustered" =>
        LET n == Len(df)
            K == Cardinality(Range(BatchIds))
        IN  /\ n = Len(commits)
            /\ {df[i].hash : i \in 1..n} = {commits[i].hash : i \in 1..n}
            /\ \A i \in 2..n : df[i - 1].commit_ts_utc <= df[i].commit_ts_utc
            /\ K <= n
            /\ Range(BatchIds) = 0..(K - 1)
            /\ n > 0 => BatchIds[1] = 0
            /\ \A i \in 2..n :
                   BatchIds[i] \in {BatchIds[i - 1], BatchIds[i - 1] + 1}
            /\ \A i, j \in 1..n :
                   (i < j /\ BatchIds[i] = BatchIds[j]) =>
                       \A k \in i..j : BatchIds[k] = BatchIds[i]

\* Three commits in two batches, the second batch holding two of them.
C1_Witness ==
    /\ pc = "clustered"
    /\ Len(df) = 3
    /\ BatchIds = <<0, 1, 1>>
    /\ commits[1].commit_ts_utc > commits[2].commit_ts_utc

\* The break rule of the scan, spelled out on the columns of an adjacent pair.
PairBreaks(prev, cur) ==
    \/ cfg.alpha * (cur.commit_ts_utc - prev.commit_ts_utc)
         + cfg.beta * (Abs(cur.insertions - prev.insertions)
                       + Abs(cur.deletions - prev.deletions)) >= cfg.gap
    \/ (cfg.break_on_merge /\ cur.is_merge)
    \/ (cfg.break_on_author /\ cur.author_email # prev.author_email)

\* C2: for every adjacent pair of the sorted stream, the later commit starts a
\* new batch (id = previous id + 1) if and only if d >= gap, or break_on_merge
\* is set and it is a merge, or break_on_author is set and the authors differ;
\* otherwise it keeps the previous id.  So, no other rule firing, three commits
\* whose second is a merge get [0,1,1] with break_on_merge, and authors a,b,a
\* get [0,1,2] with break_on_author.
C2_BreakRule ==
    pc = "clustered" =>
        /\ \A i \in 2..Len(df) :
               BatchIds[i] = BatchIds[i - 1]
                             + (IF PairBreaks(df[i - 1], df[i]) THEN 1 ELSE 0)
        /\ ( /\ Len(df) = 3
             /\ cfg.break_on_merge /\ ~cfg.break_on_author
             /\ ~df[1].is_merge /\ df[2].is_merge /\ ~df[3].is_merge
             /\ \A i \in 2..3 :
                    cfg.alpha * (df[i].commit_ts_utc - df[i - 1].commit_ts_utc)
                    + cfg.beta * (Abs(df[i].insertions - df[i - 1].insertions)
                                  + Abs(df[i].deletions - df[i - 1].deletions))
                    < cfg.gap )
            => BatchIds = <<0, 1, 1>>
        /\ ( /\ Len(df) = 3
             /\ cfg.break_on_author
             /\ df[1].author_email = df[3].author_email
             /\ df[1].author_email # df[2].author_email )
            => BatchIds = <<0, 1, 2>>

\* The merge scenario: second of three commits is a merge, nothing else breaks.
C2_Witness ==
    /\ pc = "clustered"
    /\ Len(df) = 3
    /\ cfg.break_on_merge /\ ~cfg.break_on_author
    /\ ~df[1].is_merge /\ df[2].is_merge /\ ~df[3].is_merge
    /\ df[2].commit_ts_utc > df[1].commit_ts_utc
    /\ BatchIds = <<0, 1, 1>>

\* C22: with break_on_author set, no two commits of different author_email
\* share a batch id after clustering.
C22_OneAuthorPerBatch ==
    (pc = "clustered" /\ cfg.break_on_author) =>
        \A i, j \in DOMAIN df :
            df[i].batch_id = df[j].batch_id =>
                df[i].author_email = df[j].author_email

\* Authors a, a, b close in time: the author rule alone gives [0, 0, 1].
C22_Witness ==
    /\ pc = "clustered"
    /\ cfg.break_on_author
    /\ Len(df) = 3
    /\ df[1].author_email = df[2].author_email
    /\ df[2].author_email # df[3].author_email
    /\ ~PairBreaks(df[1], df[2])
    /\ BatchIds = <<0, 0, 1>>

\* ------------------------------------------------------------------ noise
\* DataProcessor.detect_noise and compute_effective_churn.  noise_factor is in
\* hundredths (1.0 -> 100) and effective_churn in hundredths of a line.

\* The directory and file-type strings of the inputs on which one of
\* known_vendor_patterns finds a match (pattern.search).
VendorDirs == {"vendor/lib", "node_modules/x"}

VendorFileTypes == {"app.min.js", "yarn.lock"}

\* The subjects of the inputs whose lower-cased text contains one of the
\* whitespace_indicators.
WhitespaceSubjects == {"style: reformat", "Format code"}

VendorMatch(row) ==
    \/ \E i \in DOMAIN row.dirs_touched : row.dirs_touched[i] \in VendorDirs
    \/ \E i \in DOMAIN row.file_types : row.file_types[i] \in VendorFileTypes

WhitespaceMatch(row) ==
    /\ row.msg_subject \in WhitespaceSubjects
    /\ row.insertions + row.deletions > 50
    /\ Abs(row.insertions - row.deletions) < 10

\* The list noise_factors that detect_noise collects.
NoiseFactors(row, c) ==
    (IF VendorMatch(row) THEN <<c.vendor_noise_factor>> ELSE <<>>)
    \o (IF WhitespaceMatch(row) THEN <<c.whitespace_noise_factor>> ELSE <<>>)

MaxOf(s) == CHOOSE x \in Range(s) : \A y \in Range(s) : y <= x

\* max(noise_factors) if noise_factors else 1.0
DetectNoise(row, c) ==
    IF NoiseFactors(row, c) # <<>> THEN MaxOf(NoiseFactors(row, c)) ELSE 100

\* compute_effective_churn with raw_churn = insertions (deletions forgotten).
EffectiveChurnRowNoDel(row, c) ==
    LET nf == DetectNoise(row, c)
    IN  row @@ [noise_factor |-> nf,
                raw_churn |-> row.insertions + row.deletions,
                effective_churn |-> row.insertions * nf]

\* One row of compute_effective_churn: the columns it adds.
EffectiveChurnRow(row, c) ==
    LET nf  == DetectNoise(row, c)
        raw == row.insertions + row.deletions
    IN  row @@ [noise_factor |-> nf, raw_churn |-> raw,
                effective_churn |-> raw * nf]

ComputeEffectiveChurn(table, c) ==
    [i \in DOMAIN table |-> EffectiveChurnRow(table[i], c)]

\* DataProcessor.compute_effective_churn(df).
ComputeEffectiveChurnStep ==
    /\ pc = "clustered"
    /\ df' = ComputeEffectiveChurn(df, cfg)
    /\ pc' = "churn"
    /\ UNCHANGED <<cfg, commits, out, earlier, processor, results>>

\* Inputs of the noise filter: clustered rows with every combination of the
\* two indicators, on both sides of the whitespace rule's two thresholds.
NoiseLines == {<<0, 0>>, <<25, 25>>, <<25, 30>>, <<30, 40>>, <<60, 55>>}

NoiseRows ==
    {RawRow(0, "a@x", 0, l[1], l[2], FALSE, d, <<f>>, m) @@ [batch_id |-> 0] :
        l \in NoiseLines,
        d \in {<<"src">>, <<"vendor/lib", "src">>},
        f \in {"py", "app.min.js"},
        m \in {"fix typo", "style: reformat", "Format code"}}

\* Down-weights as configured: the defaults, the web service's 0.99, and the
\* ends of [0, 1].
NoiseConfigs ==
    {[DefaultConfig EXCEPT !.vendor_noise_factor = v,
                           !.whitespace_noise_factor = w] :
        v \in {0, 10, 100}, w \in {30, 99}}

InitNoise ==
    /\ pc = "clustered"
    /\ \E k \in 0..MaxNoiseRows : \E f \in [1..k -> NoiseRows] : commits = Table(f)
    /\ cfg \in NoiseConfigs
    /\ df = commits
    /\ out = <<>>
    /\ earlier = <<>>
    /\ processor = NewProcessor
    /\ results = <<>>

NextNoise == ComputeEffectiveChurnStep

SpecNoise == InitNoise /\ [][NextNoise]_vars

\* C6: detect_noise gives 1.0 when no indicator matches a commit, and
\* otherwise the smallest of the down-weights of the indicators that match.
C6_SmallestMatchingDownWeight ==
    pc = "churn" =>
        \A i \in DOMAIN df :
            LET v == \/ \E k \in DOMAIN df[i].dirs_touched :
                           df[i].dirs_touched[k] \in VendorDirs
                     \/ \E k \in DOMAIN df[i].file_types :
                           df[i].file_types[k] \in VendorFileTypes
                w == /\ df[i].msg_subject \in WhitespaceSubjects
                     /\ df[i].insertions + df[i].deletions > 50
                     /\ Abs(df[i].insertions - df[i].deletions) < 10
            IN  df[i].noise_factor =
                    IF v /\ w THEN Min2(cfg.vendor_noise_factor,
                                        cfg.whitespace_noise_factor)
                    ELSE IF v THEN cfg.vendor_noise_factor
                    ELSE IF w THEN cfg.whitespace_noise_factor
                    ELSE 100

RowsOfAuthor(batch, email) == SelectSeq(batch, LAMBDA r : r.author_email = email)

RowsOfBatch(table, b) == SelectSeq(table, LAMBDA r : r.batch_id = b)

\* calculate_share dividing each commit's own churn by the batch total.
CalculateSharePerCommit(batch) ==
    LET total == ColSum(batch, "effective_churn")
    IN  [i \in DOMAIN batch |->
            batch[i] @@ [share |-> IF total = 0 THEN Frac(0, 1)
                                   ELSE Frac(batch[i].effective_churn, total)]]

\* calculate_share: author_churn[email] / batch_total_churn, 0.0 for a batch
\* without churn.
CalculateShare(batch) ==
    LET total == ColSum(batch, "effective_churn")
    IN  [i \in DOMAIN batch |->
            batch[i] @@
            [share |-> IF total = 0 THEN Frac(0, 1)
                       ELSE Frac(ColSum(RowsOfAuthor(batch, batch[i].author_email),
                                        "effective_churn"), total)]]

\* calculate_dominance counting one commit per row instead of the author's.
CalculateDominancePerCommit(batch, c) ==
    LET s     == PandasSortValues(batch, "commit_ts_utc", FALSE, c.stable_sort)
        total == Len(s)
    IN  [i \in DOMAIN s |->
            LET first == IF s[1].author_email = s[i].author_email THEN 1 ELSE 0
                last  == IF s[total].author_email = s[i].author_email THEN 1 ELSE 0
            IN  s[i] @@ [dominance_raw |->
                             Frac(3 * total * first + 3 * total * last + 4,
                                  10 * total)]]

\* calculate_dominance: the batch sorted by time, then per author
\* 0.3 * is_first + 0.3 * is_last + 0.4 * (author commits / batch commits),
\* as a fraction over 10 * batch commits.
CalculateDominance(batch, c) ==
    LET s     == PandasSortValues(batch, "commit_ts_utc", FALSE, c.stable_sort)
        total == Len(s)
    IN  [i \in DOMAIN s |->
            LET first == IF s[1].author_email = s[i].author_email THEN 1 ELSE 0
                last  == IF s[total].author_email = s[i].author_email THEN 1 ELSE 0
                count == Len(RowsOfAuthor(s, s[i].author_email))
            IN  s[i] @@ [dominance_raw |->
                             Frac(3 * total * first + 3 * total * last + 4 * count,
                                  10 * total)]]

\* calculate_batch_effort_metrics.
CalculateBatchEffortMetrics(batch, c) == CalculateDominance(CalculateShare(batch), c)

\* The loop of process_all_batches over df['batch_id'].unique(): the
\* concatenation of the batches that reach min_batch_size.
RECURSIVE BatchResults(_, _, _)
BatchResults(ids, table, c) ==
    IF ids = <<>> THEN <<>>
    ELSE LET batch == RowsOfBatch(table, Head(ids))
         IN  (IF Len(batch) >= c.min_batch_size
              THEN CalculateBatchEffortMetrics(batch, c) ELSE <<>>)
             \o BatchResults(Tail(ids), table, c)

\* process_all_batches: with no batch processed the table comes back with an
\* effort column of zeros and none of the metric columns.
ProcessAllBatches(table, c) ==
    LET batch_tables == BatchResults(Unique(table, "batch_id"), table, c)
    IN  IF batch_tables # <<>> THEN batch_tables
        ELSE [i \in DOMAIN table |-> table[i] @@ [effort |-> 0]]

\* DeveloperEffortCalculator.process_all_batches(processed_df).
ProcessAllBatchesStep ==
    /\ pc = "processed"
    /\ df' = ProcessAllBatches(df, cfg)
    /\ pc' = "effort"
    /\ UNCHANGED <<cfg, commits, out, earlier, processor, results>>

\* Inputs of the effort scorer: preprocessed rows of up to two batches.
EffortRows ==
    {RawRow(0, a, t, n, 0, FALSE, <<"src">>, <<"py">>, "fix typo")
        @@ [batch_id |-> b, noise_factor |-> 100, raw_churn |-> n,
            effective_churn |-> 100 * n] :
        a \in Authors, t \in {0, 1}, n \in {0, 1, 3}, b \in {0, 1}}

EffortConfigs ==
    {[DefaultConfig EXCEPT !.min_batch_size = m, !.stable_sort = st] :
        m \in {1, 2}, st \in BOOLEAN}

InitEffort ==
    /\ pc = "processed"
    /\ \E k \in 0..MaxEffortRows : \E f \in [1..k -> EffortRows] : commits = Table(f)
    /\ cfg \in EffortConfigs
    /\ df = commits
    /\ out = <<>>
    /\ earlier = <<>>
    /\ processor = NewProcessor
    /\ results = <<>>

NextEffort == ProcessAllBatchesStep

SpecEffort == InitEffort /\ [][NextEffort]_vars

\* The rows of the effort table that went through a batch computation.
Scored == SelectSeq(df, LAMBDA r : "share" \in DOMAIN r)

ScoredBatch(b) == RowsOfBatch(Scored, b)

\* The share of each distinct author of a batch, one entry per author.
AuthorShares(batch) ==
    LET emails == Unique(batch, "author_email")
    IN  [k \in DOMAIN emails |-> RowsOfAuthor(batch, emails[k])[1].share]

\* C4: in every batch the effort scorer processed, the shares of the distinct
\* authors sum to 1 when the batch's total effective_churn is > 0, every share
\* is 0 when that total is 0, and every share lies in [0, 1].
C4_SharesSumToOne ==
    pc = "effort" =>
        \A b \in {Scored[i].batch_id : i \in DOMAIN Scored} :
            LET batch == ScoredBatch(b)
                total == ColSum(batch, "effective_churn")
            IN  /\ \A i, j \in DOMAIN batch :
                       batch[i].author_email = batch[j].author_email
                           => FracEq(batch[i].share, batch[j].share)
                /\ \A i \in DOMAIN batch :
                       /\ batch[i].share.den > 0
                       /\ 0 <= batch[i].share.num
                       /\ batch[i].share.num <= batch[i].share.den
                /\ total > 0 => FracEq(FracSum(AuthorShares(batch)), Frac(1, 1))
                /\ total = 0 => \A i \in DOMAIN batch : batch[i].share.num = 0

\* A batch of two authors with shares 1/4 and 3/4.
C4_Witness ==
    /\ pc = "effort"
    /\ \E i, j \in DOMAIN Scored :
           /\ Scored[i].batch_id = Scored[j].batch_id
           /\ Scored[i].author_email # Scored[j].author_email
           /\ FracEq(Scored[i].share, Frac(1, 4))
           /\ FracEq(Scored[j].share, Frac(3, 4))

\* The batch has commits of one author only.
SingleAuthor(batch) ==
    \A i, j \in DOMAIN batch : batch[i].author_email = batch[j].author_email

\* C9 as stated: in every batch whose commits all have the same author, every
\* commit has share = 1 and dominance_raw = 1.0.
C9_SingleAuthorShareOne ==
    pc = "effort" =>
        \A b \in {Scored[i].batch_id : i \in DOMAIN Scored} :
            SingleAuthor(ScoredBatch(b)) =>
                \A i \in DOMAIN ScoredBatch(b) :
                    /\ FracEq(ScoredBatch(b)[i].share, Frac(1, 1))
                    /\ FracEq(ScoredBatch(b)[i].dominance_raw, Frac(1, 1))

\* C9 amended: in every batch whose commits all have the same author, every
\* commit has dominance_raw = 1.0, and share = 1 when the batch's total
\* effective_churn is > 0 and share = 0 when it is 0.
C9_SingleAuthorBatch ==
    pc = "effort" =>
        \A b \in {Scored[i].batch_id : i \in DOMAIN Scored} :
            SingleAuthor(ScoredBatch(b)) =>
                \A i \in DOMAIN ScoredBatch(b) :
                    /\ FracEq(ScoredBatch(b)[i].dominance_raw, Frac(1, 1))
                    /\ FracEq(ScoredBatch(b)[i].share,
                              IF ColSum(ScoredBatch(b), "effective_churn") > 0
                              THEN Frac(1, 1) ELSE Frac(0, 1))

\* A batch of two commits of one author, with churn, scored 1 and 1.0.
C9_Witness ==
    /\ pc = "effort"
    /\ Len(Scored) = 2
    /\ Scored[1].batch_id = Scored[2].batch_id
    /\ Scored[1].author_email = Scored[2].author_email
    /\ Scored[1].effective_churn > 0
    /\ FracEq(Scored[2].share, Frac(1, 1))
    /\ FracEq(Scored[2].dominance_raw, Frac(1, 1))

\* ------------------------------------------------------------------ aggregation
\* FDSCalculator.aggregate_contributions_by_author.  contribution, effort,
\* batch_importance and fds are in units of 0.00005, so that rounding to four
\* decimals is rounding to an even number of units.

\* The window size from which the whole history is used.
YearWindowDays == 365

\* round(sum / n, 4) for a sum in units of 0.00005: the nearest multiple of
\* two units, halves to the even multiple (numpy's round).
RoundMean4(sum, n) ==
    LET d == 2 * n
        q == sum \div d
        r == sum % d
    IN  IF 2 * r < d THEN 2 * q
        ELSE IF 2 * r > d THEN 2 * (q + 1)
        ELSE IF q % 2 = 0 THEN 2 * q ELSE 2 * (q + 1)

Round4(x) == RoundMean4(x, 1)

ColMax(s, col) == CHOOSE x \in {s[i][col] : i \in DOMAIN s} :
                      \A i \in DOMAIN s : s[i][col] <= x

ColMin(s, col) == CHOOSE x \in {s[i][col] : i \in DOMAIN s} :
                      \A i \in DOMAIN s : x <= s[i][col]

\* df['commit_date'] = pd.to_datetime(df['commit_ts_utc'], unit='s'), written
\* into the caller's table.
WithCommitDate(table) ==
    [i \in DOMAIN table |-> table[i] @@ [commit_date |-> table[i].commit_ts_utc]]

\* (end_date - start_date).days: the whole days of the data span.
DataSpanDays(dated) ==
    (ColMax(dated, "commit_date") - ColMin(dated, "commit_date")) \div DayUnits

UsesAllData(dated, c) ==
    \/ DataSpanDays(dated) <= c.time_window_days
    \/ c.time_window_days >= YearWindowDays

\* window_df
WindowOf(dated, c) ==
    IF UsesAllData(dated, c) THEN dated
    ELSE SelectSeq(dated, LAMBDA r :
             r.commit_date >= ColMax(dated, "commit_date")
                              - c.time_window_days * DayUnits)

\* actual_window_days
ActualWindowDays(dated, c) ==
    IF UsesAllData(dated, c) THEN DataSpanDays(dated) ELSE c.time_window_days

\* The group keys of groupby('author_email'): the authors present, ascending.
GroupKeys(rows) ==
    SelectSeq(AuthorOrder, LAMBDA e : \E i \in DOMAIN rows : rows[i].author_email = e)

\* One row of author_metrics: the aggregates of an author's rows, rounded to
\* four decimals, and the window columns.
AuthorRow(rows, e, wstart, wend, wdays) ==
    LET mine == RowsOfAuthor(rows, e)
    IN  [author_email   |-> e,
         fds            |-> Round4(ColSum(mine, "contribution")),
         avg_effort     |-> RoundMean4(ColSum(mine, "effort"), Len(mine)),
         avg_importance |-> RoundMean4(ColSum(mine, "batch_importance"), Len(mine)),
         total_churn    |-> ColSum(mine, "effective_churn"),
         total_files    |-> ColSum(mine, "files_changed"),
         unique_batches |-> Cardinality({mine[i].batch_id : i \in DOMAIN mine}),
         first_commit   |-> ColMin(mine, "commit_date"),
         last_commit    |-> ColMax(mine, "commit_date"),
         commit_count   |-> Len(mine),
         window_start   |-> wstart,
         window_end     |-> wend,
         window_days    |-> wdays]

\* author_metrics of the rows grouped, in group-key order.
AuthorMetrics(rows, wdays) ==
    LET keys == GroupKeys(rows)
    IN  [k \in DOMAIN keys |->
            AuthorRow(rows, keys[k], ColMin(rows, "commit_date"),
                      ColMax(rows, "commit_date"), wdays)]

\* author_metrics[author_metrics['fds'] >= contribution_threshold]
\* The filter keeping only an fds above the threshold, not one equal to it.
AboveThresholdStrict(metrics, c) ==
    SelectSeq(metrics, LAMBDA m : m.fds > c.contribution_threshold)

AboveThreshold(metrics, c) ==
    SelectSeq(metrics, LAMBDA m : m.fds >= c.contribution_threshold)

\* aggregate_contributions_by_author grouping df instead of window_df.
AggregateWholeTable(table, c) ==
    LET dated == WithCommitDate(table)
    IN  PandasSortValues(
            AboveThreshold(AuthorMetrics(dated, ActualWindowDays(dated, c)), c),
            "fds", TRUE, c.stable_sort)

\* aggregate_contributions_by_author without the final sort_values.
AggregateUnsorted(table, c) ==
    LET dated == WithCommitDate(table)
    IN  AboveThreshold(AuthorMetrics(WindowOf(dated, c),
                                     ActualWindowDays(dated, c)), c)

\* The table aggregate_contributions_by_author returns.
AggregateContributionsByAuthor(table, c) ==
    LET dated == WithCommitDate(table)
    IN  PandasSortValues(
            AboveThreshold(AuthorMetrics(WindowOf(dated, c),
                                         ActualWindowDays(dated, c)), c),
            "fds", TRUE, c.stable_sort)

\* FDSCalculator.aggregate_contributions_by_author(individual_contributions).
AggregateStep ==
    /\ pc = "contributions"
    /\ df # <<>>
    /\ df' = WithCommitDate(df)
    /\ out' = AggregateContributionsByAuthor(df, cfg)
    /\ pc' = "aggregated"
    /\ UNCHANGED <<cfg, commits, earlier, processor, results>>

\* A row of individual_contributions: importance 1.0, effort = contribution.
ContributionRow(a, t, x, b) ==
    RawRow(0, a, t, 1, 0, FALSE, <<"src">>, <<"py">>, "fix typo")
    @@ [batch_id |-> b, noise_factor |-> 100, raw_churn |-> 1,
        effective_churn |-> 100, share |-> Frac(1, 1),
        dominance_raw |-> Frac(1, 1), effort |-> x,
        batch_importance |-> 20000, contribution |-> x]

\* Inputs of the aggregation.  For the window: commits 1, 1.5, 2 and 366 days
\* apart, windows of 1 and 365 days.  For the ranking: contributions below,
\* at and above the threshold of 0.01, one of them off the 4-decimal grid.
WindowRows ==
    {ContributionRow(a, t, 300, t) : a \in Authors, t \in {0, 2, 3, 4, 732}}

RankRows ==
    {ContributionRow(a, t, x, t) : a \in Authors, t \in {0, 4},
                                   x \in {0, 100, 200, 301}}

WindowConfigs ==
    {[DefaultConfig EXCEPT !.time_window_days = w] : w \in {1, YearWindowDays}}

RankConfigs ==
    {[DefaultConfig EXCEPT !.time_window_days = 1, !.stable_sort = st] :
        st \in BOOLEAN}

InitAgg ==
    /\ pc = "contributions"
    /\ \E k \in 1..MaxAggRows :
          \/ /\ \E f \in [1..k -> WindowRows] : commits = Table(f)
             /\ cfg \in WindowConfigs
          \/ /\ \E f \in [1..k -> RankRows] : commits = Table(f)
             /\ cfg \in RankConfigs
    /\ df = commits
    /\ out = <<>>
    /\ earlier = <<>>
    /\ processor = NewProcessor
    /\ results = <<>>

NextAgg == AggregateStep

SpecAgg == InitAgg /\ [][NextAgg]_vars

\* The commits inside the window the aggregation selected.
Window == WindowOf(df, cfg)

\* The authors whose rounded windowed fds reaches contribution_threshold.
KeptAuthors ==
    {e \in Authors :
        /\ RowsOfAuthor(Window, e) # <<>>
        /\ Round4(ColSum(RowsOfAuthor(Window, e), "contribution"))
               >= cfg.contribution_threshold}

\* C3 as stated: the sum of fds over the authors returned equals the sum of
\* contribution over all commits inside the selected time window, up to the
\* rounding of each author's fds (half of 0.0001, one unit, per author).
C3_FdsSumIsWindowSum ==
    pc = "aggregated" =>
        Abs(ColSum(out, "fds") - ColSum(Window, "contribution"))
            <= Len(GroupKeys(Window))

\* C3 amended: the sum of fds over the authors returned equals, up to that
\* rounding, the sum of contribution over the commits inside the selected
\* window whose author's windowed fds reaches contribution_threshold.
C3_FdsSumIsKeptSum ==
    pc = "aggregated" =>
        Abs(ColSum(out, "fds")
            - ColSum(SelectSeq(Window, LAMBDA r : r.author_email \in KeptAuthors),
                     "contribution"))
            <= Cardinality(KeptAuthors)

\* One author is returned, another is inside the window but below the
\* threshold, and a commit lies outside the window.
C3_Witness ==
    /\ pc = "aggregated"
    /\ Len(out) = 1
    /\ out[1].fds > 0
    /\ Len(GroupKeys(Window)) = 2
    /\ Len(Window) < Len(df)
    /\ ColSum(Window, "contribution") > out[1].fds + 1

\* C5: all commits are kept when the data span (latest minus earliest commit
\* time) is <= W days or W >= 365, otherwise exactly those with
\* commit_ts >= max(commit_ts) - W days; only kept commits count in an author's
\* fds, commit_count and first_commit.
C5_WindowSelection ==
    pc = "aggregated" =>
        LET end   == ColMax(df, "commit_ts_utc")
            start == ColMin(df, "commit_ts_utc")
            W     == cfg.time_window_days
            kept  == IF end - start <= W * DayUnits \/ W >= YearWindowDays
                     THEN df
                     ELSE SelectSeq(df, LAMBDA r :
                              r.commit_ts_utc >= end - W * DayUnits)
        IN  \A k \in DOMAIN out :
                LET mine == RowsOfAuthor(kept, out[k].author_email)
                IN  /\ mine # <<>>
                    /\ out[k].commit_count = Len(mine)
                    /\ out[k].fds = Round4(ColSum(mine, "contribution"))
                    /\ out[k].first_commit = ColMin(mine, "commit_ts_utc")

\* C8 as stated: the author list is sorted by fds descending, authors of equal
\* fds by commit_count descending and then by author_email ascending.
C8_SortedWithTieBreaks ==
    pc = "aggregated" =>
        \A k \in 2..Len(out) :
            \/ out[k - 1].fds > out[k].fds
            \/ /\ out[k - 1].fds = out[k].fds
               /\ \/ out[k - 1].commit_count > out[k].commit_count
                  \/ /\ out[k - 1].commit_count = out[k].commit_count
                     /\ EmailRank(out[k - 1].author_email)
                            < EmailRank(out[k].author_email)

\* C8 amended: the author list is sorted by fds descending (no order is
\* promised among authors of equal fds).
C8_SortedByFds ==
    pc = "aggregated" =>
        \A k \in 2..Len(out) : out[k - 1].fds >= out[k].fds

\* Two authors returned, the later one in group order ranked first.
C8_Witness ==
    /\ pc = "aggregated"
    /\ Len(out) = 2
    /\ out[1].fds > out[2].fds
    /\ EmailRank(out[1].author_email) > EmailRank(out[2].author_email)

\* C14: the authors returned are exactly those with a commit inside the
\* selected window whose windowed fds is >= contribution_threshold, each once;
\* no author with a smaller fds is returned.
C14_ExactlyAuthorsAboveThreshold ==
    pc = "aggregated" =>
        /\ {out[k].author_email : k \in DOMAIN out} = KeptAuthors
        /\ Len(out) = Cardinality(KeptAuthors)
        /\ \A k \in DOMAIN out : out[k].fds >= cfg.contribution_threshold

\* One author returned with an fds equal to the threshold, the other author
\* inside the window and dropped.
C14_Witness ==
    /\ pc = "aggregated"
    /\ Len(out) = 1
    /\ out[1].fds = cfg.contribution_threshold
    /\ Len(GroupKeys(Window)) = 2

\* ------------------------------------------------------------------ commit types
\* BatchImportanceCalculator.classify_commit_type and
\* calculate_batch_type_priority.  A subject is matched through its words:
\* SubjectWords gives, for the subjects used here, the lower-cased words that
\* the patterns' \b boundaries delimit.

SubjectWords ==
    [s \in {"fix typo", "Fix Typo", "fixed typo", "Fix CVE overflow",
            "urgent fix", "fix noncritical path", "add docs", "update README",
            "optimize cache", "optimize loop", "refactor error handling",
            "bump version", "style: reformat", "Format code", "add driver", ""} |->
        CASE s = "fix typo"                -> <<"fix", "typo">>
          [] s = "Fix Typo"                -> <<"fix", "typo">>
          [] s = "fixed typo"              -> <<"fixed", "typo">>
          [] s = "Fix CVE overflow"        -> <<"fix", "cve", "overflow">>
          [] s = "urgent fix"              -> <<"urgent", "fix">>
          [] s = "fix noncritical path"    -> <<"fix", "noncritical", "path">>
          [] s = "add docs"                -> <<"add", "docs">>
          [] s = "update README"           -> <<"update", "readme">>
          [] s = "optimize cache"          -> <<"optimize", "cache">>
          [] s = "optimize loop"           -> <<"optimize", "loop">>
          [] s = "refactor error handling" -> <<"refactor", "error", "handling">>
          [] s = "bump version"            -> <<"bump", "version">>
          [] s = "style: reformat"         -> <<"style", "reformat">>
          [] s = "Format code"             -> <<"format", "code">>
          [] s = "add driver"              -> <<"add", "driver">>
          [] OTHER                         -> <<>>]

\* The classes in the order of the commit_type_patterns dictionary.
CommitTypeOrder ==
    <<"security", "hotfix", "feature", "perf", "bugfix", "refactor", "doc">>

\* The alternatives of each class's two \b(...)\b patterns.
CommitTypeWords ==
    [security |-> {"security", "cve", "vuln", "exploit", "attack", "breach",
                   "xss", "csrf", "injection", "overflow", "privilege"},
     hotfix   |-> {"hotfix", "urgent", "critical", "emergency"},
     feature  |-> {"feature", "add", "new", "implement", "introduce",
                   "support", "enable", "enhance"},
     perf     |-> {"perf", "performance", "optimiz", "faster", "speed",
                   "cache", "memory", "cpu", "latency"},
     bugfix   |-> {"fix", "bug", "issue", "problem", "error",
                   "correct", "resolve", "address"},
     refactor |-> {"refactor", "restructure", "reorganize", "cleanup",
                   "simplify", "extract", "rename"},
     doc      |-> {"doc", "documentation", "readme", "comment",
                   "manual", "guide", "tutorial"}]

\* \b(fix.*critical|critical.*fix)\b among the words used here: a word that
\* starts with the first part, followed by a word that ends with the second.
FixStarts == {"fix", "fixed"}
CriticalEnds == {"critical", "noncritical"}
CriticalStarts == {"critical"}
FixEnds == {"fix"}

PhraseMatch(words) ==
    \E i, j \in DOMAIN words :
        /\ i < j
        /\ \/ words[i] \in FixStarts /\ words[j] \in CriticalEnds
           \/ words[i] \in CriticalStarts /\ words[j] \in FixEnds

\* pattern.search(msg_subject) for one of the patterns of the class.
TypeMatches(commit_type, words) ==
    \/ \E i \in DOMAIN words : words[i] \in CommitTypeWords[commit_type]
    \/ commit_type = "hotfix" /\ PhraseMatch(words)

\* The class matched last in the dictionary's order instead of first.
ClassifyCommitTypeLast(msg_subject) ==
    LET words == SubjectWords[msg_subject]
        hits  == {k \in DOMAIN CommitTypeOrder : TypeMatches(CommitTypeOrder[k], words)}
    IN  IF hits = {} THEN "other"
        ELSE CommitTypeOrder[CHOOSE k \in hits : \A h \in hits : h <= k]

\* classify_commit_type: the first class of the dictionary with a pattern
\* that finds a match, 'other' without one (and for a missing subject).
ClassifyCommitType(msg_subject) ==
    LET words == SubjectWords[msg_subject]
        hits  == {k \in DOMAIN CommitTypeOrder : TypeMatches(CommitTypeOrder[k], words)}
    IN  IF hits = {} THEN "other"
        ELSE CommitTypeOrder[CHOOSE k \in hits : \A h \in hits : k <= h]

\* _get_commit_type_priorities, in hundredths.
CommitTypePriorities ==
    [security |-> 120, hotfix |-> 115, feature |-> 110, perf |-> 105,
     bugfix |-> 100, refactor |-> 90, doc |-> 60, other |-> 80]

\* calculate_batch_type_priority taking the priority of the batch's first
\* commit.
CalculateBatchTypePriorityOfFirst(batch) ==
    IF batch = <<>> THEN CommitTypePriorities["other"]
    ELSE CommitTypePriorities[ClassifyCommitType(batch[1].msg_subject)]

\* calculate_batch_type_priority: the largest priority among the classes of
\* the batch's commits, the priority of 'other' for a batch without commits.
CalculateBatchTypePriority(batch) ==
    IF batch = <<>> THEN CommitTypePriorities["other"]
    ELSE LET ps == {CommitTypePriorities[ClassifyCommitType(batch[i].msg_subject)] :
                        i \in DOMAIN batch}
         IN  CHOOSE p \in ps : \A q \in ps : q <= p

\* The type_raw entry of calculate_batch_importance_metrics for one batch,
\* with the class of every commit.
CalculateBatchTypePriorityStep ==
    /\ pc = "batch"
    /\ out' = [commit_types |->
                   [i \in DOMAIN df |-> ClassifyCommitType(df[i].msg_subject)],
               type_raw |-> CalculateBatchTypePriority(df)]
    /\ pc' = "type_raw"
    /\ UNCHANGED <<cfg, commits, df, earlier, processor, results>>

\* Inputs: one batch of up to MaxTypeRows commits with subjects of every class,
\* of several classes at once and of none.
TypeSubjects ==
    {"fix typo", "Fix Typo", "fixed typo", "Fix CVE overflow", "urgent fix",
     "fix noncritical path", "add docs", "update README", "optimize cache",
     "optimize loop", "refactor error handling", "bump version", ""}

InitType ==
    /\ pc = "batch"
    /\ cfg = DefaultConfig
    /\ \E k \in 1..MaxTypeRows : \E f \in [1..k -> TypeSubjects] :
          commits = [i \in 1..k |->
                        RawRow(i, "a@x", 0, 1, 0, FALSE, <<"src">>, <<"py">>, f[i])
                        @@ [batch_id |-> 0, effective_churn |-> 100]]
    /\ df = commits
    /\ out = <<>>
    /\ earlier = <<>>
    /\ processor = NewProcessor
    /\ results = <<>>

NextType == CalculateBatchTypePriorityStep

SpecType == InitType /\ [][NextType]_vars

\* C16: a commit's class is the first class, in the order security, hotfix,
\* feature, perf, bugfix, refactor, doc, whose vocabulary matches the subject
\* whatever its case, and 'other' when none matches; "fix typo" is a bugfix,
\* and a batch whose commits all read "fix typo" has type_raw = 1.00.
C16_FirstMatchingClass ==
    pc = "type_raw" =>
        /\ \A i \in DOMAIN df :
              LET words == SubjectWords[df[i].msg_subject]
                  type  == out.commit_types[i]
              IN  /\ type = "other" =>
                         \A k \in DOMAIN CommitTypeOrder :
                             ~TypeMatches(CommitTypeOrder[k], words)
                  /\ type # "other" =>
                         \E k \in DOMAIN CommitTypeOrder :
                             /\ CommitTypeOrder[k] = type
                             /\ TypeMatches(type, words)
                             /\ \A h \in 1..(k - 1) :
                                    ~TypeMatches(CommitTypeOrder[h], words)
                  /\ df[i].msg_subject = "fix typo" => type = "bugfix"
                  /\ df[i].msg_subject = "Fix Typo" => type = "bugfix"
        /\ (\A i \in DOMAIN df : df[i].msg_subject = "fix typo")
               => out.type_raw = 100

\* A batch of two "fix typo" commits, classified bugfix, with type_raw 1.00.
C16_Witness ==
    /\ pc = "type_raw"
    /\ Len(df) = 2
    /\ \A i \in DOMAIN df :
          df[i].msg_subject = "fix typo" /\ out.commit_types[i] = "bugfix"
    /\ out.type_raw = 100

\* C24: the type_raw of a batch is the largest multiplier among the classes
\* of its commits (security 1.20, hotfix 1.15, feature 1.10, perf 1.05, bugfix
\* 1.00, refactor 0.90, other 0.80, doc 0.60), and it is at least the type_raw
\* of the batch formed by any of its leading commits: adding a commit never
\* lowers it.
C24_TypeRawIsMaxPriority ==
    pc = "type_raw" =>
        LET multiplier == [security |-> 120, hotfix |-> 115, feature |-> 110,
                           perf |-> 105, bugfix |-> 100, refactor |-> 90,
                           other |-> 80, doc |-> 60]
        IN  /\ \E i \in DOMAIN df : out.type_raw = multiplier[out.commit_types[i]]
            /\ \A i \in DOMAIN df : out.type_raw >= multiplier[out.commit_types[i]]
            /\ \A k \in 1..Len(df) :
                  CalculateBatchTypePriority(SubSeq(df, 1, k)) <= out.type_raw

\* A doc commit followed by a commit of no class: type_raw rises from 0.60
\* to 0.80.
C24_Witness ==
    /\ pc = "type_raw"
    /\ out.commit_types = <<"doc", "other">>
    /\ out.type_raw = 80
    /\ CalculateBatchTypePriority(SubSeq(df, 1, 1)) = 60

\* ------------------------------------------------------------------ contributions
\* FDSCalculator.calculate_contributions followed by the aggregation, as
\* run_fds_calculation and _run_fds_analysis call them.  effort and
\* batch_importance are in units of 0.00005 like contribution.

\* One unit of effort, importance and contribution: 1.0 is UnitsPerOne units.
UnitsPerOne == 20000

\* effort * batch_importance without the clip.
CalculateContributionsNoClip(table) ==
    [i \in DOMAIN table |->
        table[i] @@ [contribution |->
            (table[i].effort * table[i].batch_importance) \div UnitsPerOne]]

\* calculate_contributions: a copy of the table with
\* contribution = (effort * batch_importance).clip(lower=0).
CalculateContributions(table) ==
    [i \in DOMAIN table |->
        table[i] @@ [contribution |->
            LET raw == (table[i].effort * table[i].batch_importance) \div UnitsPerOne
            IN  IF raw < 0 THEN 0 ELSE raw]]

\* Each factor floored at 0 before the product is taken.
CalculateContributionsStepClippingFactors ==
    /\ pc = "importance"
    /\ df' = [i \in DOMAIN df |->
                df[i] @@ [contribution |->
                    LET effort == IF df[i].effort < 0 THEN 0 ELSE df[i].effort
                        importance == IF df[i].batch_importance < 0 THEN 0
                                      ELSE df[i].batch_importance
                    IN  (effort * importance) \div UnitsPerOne]]
    /\ pc' = "contributions"
    /\ UNCHANGED <<cfg, commits, out, earlier, processor, results>>

\* fds_calc.calculate_contributions(df)
CalculateContributionsStep ==
    /\ pc = "importance"
    /\ df' = CalculateContributions(df)
    /\ pc' = "contributions"
    /\ UNCHANGED <<cfg, commits, out, earlier, processor, results>>

\* Inputs: commits with an effort of -0.5, 0 or 0.5 in batches 0, 1, 2 whose
\* importance is -1, 0 and 1.
BatchImportances == <<-20000, 0, 20000>>

ScoredRow(a, e, b) ==
    RawRow(0, a, 0, 1, 0, FALSE, <<"src">>, <<"py">>, "fix typo")
    @@ [batch_id |-> b, noise_factor |-> 100, raw_churn |-> 1,
        effective_churn |-> 100, share |-> Frac(1, 1),
        dominance_raw |-> Frac(1, 1), effort |-> e,
        batch_importance |-> BatchImportances[b + 1]]

ScoredRows ==
    {ScoredRow(a, e, b) : a \in Authors, e \in {-10000, 0, 10000}, b \in {0, 1, 2}}

InitFds ==
    /\ pc = "importance"
    /\ \E k \in 1..MaxFdsRows : \E f \in [1..k -> ScoredRows] : commits = Table(f)
    /\ cfg = DefaultConfig
    /\ df = commits
    /\ out = <<>>
    /\ earlier = <<>>
    /\ processor = NewProcessor
    /\ results = <<>>

NextFds == CalculateContributionsStep \/ AggregateStep

SpecFds == InitFds /\ [][NextFds]_vars

\* C13: every commit's contribution is >= 0 and is effort * importance when
\* that product is positive and 0 otherwise; every author's fds is >= 0.
C13_ContributionNonNegative ==
    /\ pc \in {"contributions", "aggregated"} =>
          \A i \in DOMAIN df :
             LET product == df[i].effort * df[i].batch_importance
             IN  /\ df[i].contribution >= 0
                 /\ product > 0 => df[i].contribution * UnitsPerOne = product
                 /\ product <= 0 => df[i].contribution = 0
    /\ pc = "aggregated" => \A i \in DOMAIN out : out[i].fds >= 0

\* A commit with a negative product next to one with a positive product, the
\* author scored.
C13_Witness ==
    /\ pc = "aggregated"
    /\ \E i \in DOMAIN df :
          /\ df[i].effort * df[i].batch_importance < 0
          /\ df[i].contribution = 0
    /\ out # <<>>

\* C28: a commit's contribution is > 0 exactly when its effort and its batch
\* importance are both > 0 or both < 0, and is 0 otherwise; negative effort in
\* a batch of negative importance gives a positive contribution.
C28_PositiveIffSameSign ==
    pc \in {"contributions", "aggregated"} =>
        \A i \in DOMAIN df :
            LET same_sign ==
                    \/ df[i].effort > 0 /\ df[i].batch_importance > 0
                    \/ df[i].effort < 0 /\ df[i].batch_importance < 0
            IN  /\ df[i].contribution > 0 <=> same_sign
                /\ ~same_sign => df[i].contribution = 0

\* Negative effort in a batch of negative importance, contribution > 0, next
\* to a commit of zero effort and one of opposite signs.
C28_Witness ==
    /\ pc = "contributions"
    /\ \E i \in DOMAIN df :
          /\ df[i].effort < 0
          /\ df[i].batch_importance < 0
          /\ df[i].contribution > 0
    /\ \E i \in DOMAIN df :
          /\ df[i].effort > 0
          /\ df[i].batch_importance < 0
          /\ df[i].contribution = 0
    /\ \E i \in DOMAIN df : df[i].effort = 0 /\ df[i].contribution = 0

\* ------------------------------------------------------------------ MAD-Z
\* mad_z_score(values) with its default median, mad and clip_range.  The input
\* values are integers; a score is the exact fraction num/den (den > 0), or
\* 0/0 where the floating-point division would give NaN.

\* The values in ascending order (np.median sorts a copy).
RECURSIVE InsertValue(_, _)
InsertValue(x, s) ==
    IF s = <<>> THEN <<x>>
    ELSE IF x <= Head(s) THEN <<x>> \o s
    ELSE <<Head(s)>> \o InsertValue(x, Tail(s))

RECURSIVE SortValues(_)
SortValues(s) == IF s = <<>> THEN <<>> ELSE InsertValue(Head(s), SortValues(Tail(s)))

\* Twice np.median(values) for a non-empty vector: the middle value, or the
\* mean of the two middle values.
Median2(values) ==
    LET s == SortValues(values)
        n == Len(s)
    IN  IF n % 2 = 1 THEN 2 * s[(n + 1) \div 2]
        ELSE s[n \div 2] + s[n \div 2 + 1]

\* Four times the MAD: np.median(np.abs(values - median)).
Mad4(values) ==
    Median2([i \in DOMAIN values |-> Abs(2 * values[i] - Median2(values))])

\* np.clip(z, -3, 3) of the quotient num/den, den >= 0: x/0 is +-inf and is
\* clipped, 0/0 is NaN and stays NaN (the fraction 0/0).
Clip3(z) ==
    IF z.den = 0
    THEN (IF z.num > 0 THEN Frac(3, 1) ELSE IF z.num < 0 THEN Frac(-3, 1) ELSE z)
    ELSE IF z.num > 3 * z.den THEN Frac(3, 1)
    ELSE IF z.num < -3 * z.den THEN Frac(-3, 1)
    ELSE z

\* The same without the guard for a zero MAD.
MadZScoreUnguarded(values) ==
    IF values = <<>> THEN <<>>
    ELSE [i \in DOMAIN values |->
             Clip3(Frac((2 * values[i] - Median2(values)) * 20000,
                        14826 * Mad4(values)))]

\* mad_z_score: zeros when the MAD is 0, else the clipped scores.  An empty
\* vector has a NaN median and MAD and comes back empty.
MadZScore(values) ==
    IF values = <<>> THEN <<>>
    ELSE IF Mad4(values) = 0 THEN [i \in DOMAIN values |-> Frac(0, 1)]
    ELSE [i \in DOMAIN values |->
             Clip3(Frac((2 * values[i] - Median2(values)) * 20000,
                        14826 * Mad4(values)))]

\* normalize_*_metrics: z_column = mad_z_score(column).
MadZScoreStep ==
    /\ pc = "values"
    /\ out' = MadZScore(df)
    /\ pc' = "z_scores"
    /\ UNCHANGED <<cfg, commits, df, earlier, processor, results>>

\* Inputs: the vectors of up to MaxVecLen values.
MadValues == {-2, 0, 1, 2, 9}

InitMad ==
    /\ pc = "values"
    /\ cfg = DefaultConfig
    /\ commits = <<>>
    /\ \E k \in 0..MaxVecLen : df \in [1..k -> MadValues]
    /\ out = <<>>
    /\ earlier = <<>>
    /\ processor = NewProcessor
    /\ results = <<>>

NextMad == MadZScoreStep

SpecMad == InitMad /\ [][NextMad]_vars

\* C12: every value mad_z_score returns lies in [-3, 3] and none is NaN; when
\* the MAD of the input is 0, in particular for a constant input, every value
\* is exactly 0.
C12_MadZRange ==
    pc = "z_scores" =>
        /\ Len(out) = Len(df)
        /\ \A i \in DOMAIN out :
              /\ out[i].den > 0
              /\ -3 * out[i].den <= out[i].num /\ out[i].num <= 3 * out[i].den
              /\ ((\A j \in DOMAIN df : df[j] = df[i]) \/ Mad4(df) = 0)
                     => out[i].num = 0

\* A vector whose MAD is 0 although it is not constant, normalized to zeros,
\* the outlier included.
C12_Witness ==
    /\ pc = "z_scores"
    /\ Len(df) = 3
    /\ \E i, j \in DOMAIN df : df[i] # df[j]
    /\ Mad4(df) = 0
    /\ \A i \in DOMAIN out : out[i].num = 0

\* ------------------------------------------------------------------ directory graph
\* DataProcessor.build_directory_graph and the columns derived from it.
\* dirs_touched is held as the sequence of directory names that splitting the
\* ';'-separated string, stripping and dropping the empty names gives.

\* PageRank values are in units of 1e-7.
PrScale == 10000000

\* networkx.pagerank's default tol = 1.0e-6, in the same units.
PrTol == 10

\* Ten times the total mass of a PageRank vector.
PrEscape == 100000000

RECURSIVE SumOver(_, _)
SumOver(f, S) ==
    IF S = {} THEN 0
    ELSE LET e == CHOOSE e \in S : TRUE IN f[e] + SumOver(f, S \ {e})

\* floor(x * w / s) for w >= 0 and s > 0, the product kept within 32 bits.
MulDiv(x, w, s) == (x \div s) * w + ((x % s) * w) \div s

\* The pairs of neighbours in the list only.
CochangePairsAdjacent(dirs) ==
    {p \in (DOMAIN dirs) \X (DOMAIN dirs) :
        p[2] = p[1] + 1 /\ dirs[p[1]] # dirs[p[2]]}

\* for i, dir1 in enumerate(dirs): for dir2 in dirs[i+1:]: if dir1 != dir2
CochangePairs(dirs) ==
    {p \in (DOMAIN dirs) \X (DOMAIN dirs) : p[1] < p[2] /\ dirs[p[1]] # dirs[p[2]]}

\* cochange_count after the loop over the rows: per edge (the sorted pair, here
\* the set of the two names) the effective_churn of every index pair that
\* yields it.  A pair of a commit without churn still creates its key.
RECURSIVE CochangeCount(_)
CochangeCount(table) ==
    IF table = <<>> THEN <<>>
    ELSE LET rest  == CochangeCount(SubSeq(table, 1, Len(table) - 1))
             row   == table[Len(table)]
             dirs  == row.dirs_touched
             pairs == CochangePairs(dirs)
             edges == {{dirs[p[1]], dirs[p[2]]} : p \in pairs}
             times(e) == Cardinality({p \in pairs : {dirs[p[1]], dirs[p[2]]} = e})
         IN  [e \in (DOMAIN rest) \cup edges |->
                (IF e \in DOMAIN rest THEN rest[e] ELSE 0)
                + (IF e \in edges THEN times(e) * row.effective_churn ELSE 0)]

\* The graph built from the counts: the edges of weight >= min_churn_for_edge.
GraphOf(cochange_count, c) ==
    [e \in {e \in DOMAIN cochange_count :
                cochange_count[e] >= c.min_churn_for_edge} |-> cochange_count[e]]

Nodes(graph) == UNION (DOMAIN graph)

EdgeWeight(graph, n, m) ==
    IF n # m /\ {n, m} \in DOMAIN graph THEN graph[{n, m}] ELSE 0

Strength(graph, n) ==
    SumOver([m \in Nodes(graph) |-> EdgeWeight(graph, n, m)], Nodes(graph))

\* The power iteration without its teleport term (1 - alpha) * p.
PageRankStepNoTeleport(graph, x, c) ==
    LET nodes    == Nodes(graph)
        N        == Cardinality(nodes)
        dangling == {n \in nodes : Strength(graph, n) = 0}
        lost     == SumOver(x, dangling)
    IN  [m \in nodes |->
            MulDiv(SumOver([n \in nodes |->
                              IF n \in dangling THEN 0
                              ELSE MulDiv(x[n], EdgeWeight(graph, n, m),
                                          Strength(graph, n))], nodes)
                     + lost \div N,
                   c.pagerank_damping, 100)]

\* One power iteration of networkx.pagerank:
\* x = alpha * (x @ A + sum(x[is_dangling]) * dangling_weights) + (1 - alpha) * p
PageRankStep(graph, x, c) ==
    LET nodes    == Nodes(graph)
        N        == Cardinality(nodes)
        dangling == {n \in nodes : Strength(graph, n) = 0}
        lost     == SumOver(x, dangling)
    IN  [m \in nodes |->
            MulDiv(SumOver([n \in nodes |->
                              IF n \in dangling THEN 0
                              ELSE MulDiv(x[n], EdgeWeight(graph, n, m),
                                          Strength(graph, n))], nodes)
                     + lost \div N,
                   c.pagerank_damping, 100)
            + ((100 - c.pagerank_damping) * (PrScale \div N)) \div 100]

\* err = absolute(x - xlast).sum()
IterationError(graph, x, xlast) ==
    SumOver([n \in Nodes(graph) |-> Abs(x[n] - xlast[n])], Nodes(graph))

\* One pass of the loop body on the loop's state: the vector and whether the
\* loop has returned.  if err < N * tol: return x.  A vector with an entry
\* beyond +-PrEscape has left the probability simplex for good, which a
\* damping outside (0, 1) allows: it is not iterated further and never
\* converges.
IterationPass(graph, st, c) ==
    IF st.converged \/ \E n \in Nodes(graph) : Abs(st.x[n]) > PrEscape THEN st
    ELSE CHOOSE r \in
            {[converged |-> IterationError(graph, nxt, st.x)
                                < Cardinality(Nodes(graph)) * PrTol,
              x |-> nxt] : nxt \in {PageRankStep(graph, st.x, c)}} : TRUE

\* for _ in range(max_iter): the passes, played in two halves so that the
\* evaluation nests only logarithmically deep; each intermediate state is
\* bound once, as the value of a singleton's element.
\* raise PowerIterationFailedConvergence(max_iter): converged = FALSE
RECURSIVE PowerIteration(_, _, _, _)
PowerIteration(graph, st, c, passes) ==
    IF passes <= 0 THEN st
    ELSE IF passes = 1 THEN IterationPass(graph, st, c)
    ELSE CHOOSE r \in
            {PowerIteration(graph, mid, c, passes - passes \div 2) :
                 mid \in {PowerIteration(graph, st, c, passes \div 2)}} : TRUE

\* nx.pagerank(graph, weight='weight', alpha=pagerank_damping,
\*             max_iter=pagerank_iterations), started from the uniform vector.
PageRank(graph, c) ==
    LET nodes == Nodes(graph)
    IN  PowerIteration(graph,
                       [converged |-> FALSE,
                        x |-> [n \in nodes |-> PrScale \div Cardinality(nodes)]],
                       c, c.pagerank_iterations)

\* build_directory_graph: the processor after the call.  The graph is replaced
\* first; the centrality map is replaced when PageRank returns, and is the
\* empty map for a graph without nodes.
BuildDirectoryGraph(self, table, c) ==
    LET graph == GraphOf(CochangeCount(table), c)
        rank  == IF Nodes(graph) # {} THEN PageRank(graph, c)
                 ELSE [converged |-> TRUE, x |-> <<>>]
    IN  IF rank.converged
        THEN [directory_graph |-> graph, directory_centrality |-> rank.x]
        ELSE [self EXCEPT !.directory_graph = graph]

\* build_directory_graph raises what nx.pagerank raises.
BuildDirectoryGraphRaises(table, c) ==
    LET graph == GraphOf(CochangeCount(table), c)
    IN  Nodes(graph) # {} /\ ~PageRank(graph, c).converged

\* compute_directory_centrality: the mean of directory_centrality.get(d, 0.0)
\* over the directories of the commit, 0.0 without directories.
ComputeDirectoryCentrality(self, dirs) ==
    IF dirs = <<>> THEN 0
    ELSE SumOver([i \in DOMAIN dirs |->
                     IF dirs[i] \in DOMAIN self.directory_centrality
                     THEN self.directory_centrality[dirs[i]] ELSE 0],
                 DOMAIN dirs) \div Len(dirs)

\* _get_key_directories, as far as the directory names used here go.
KnownKeyDirectories == {"kernel", "src", "lib"}

\* detect_key_paths: int(effective_churn * len(key_dirs) / len(dirs)), in lines.
DetectKeyPaths(row) ==
    LET dirs == row.dirs_touched
        key_dirs == SelectSeq(dirs, LAMBDA d : d \in KnownKeyDirectories)
    IN  IF key_dirs # <<>>
        THEN (row.effective_churn * Len(key_dirs)) \div (100 * Len(dirs))
        ELSE 0

\* The subjects used here that contain 'add', 'new' or 'create'.
NewFileSubjects == {"add driver"}

\* detect_new_files: new_file_indicator and new_file_lines = int(insertions * 0.8).
DetectNewFilesRow(row) ==
    LET indicator == /\ row.msg_subject \in NewFileSubjects
                     /\ row.insertions > 2 * row.deletions
    IN  row @@ [new_file_indicator |-> indicator,
                new_file_lines |-> IF indicator THEN (row.insertions * 8) \div 10
                                   ELSE 0]

\* detect_new_files on a table without rows.  DataFrame.apply(f, axis=1) on an
\* empty frame probes f with one row of missing values and, when the probe
\* raises, returns a copy of the frame instead of a column.  The lambda of
\* new_file_lines raises on the probe (int() of a missing insertions; a
\* KeyError on new_file_indicator where the probe row has no columns), and
\* df['new_file_lines'] = <frame of several columns> raises ValueError.  The
\* probes of detect_noise, detect_key_paths and new_file_indicator return a
\* scalar, so these columns are added, empty.
DetectNewFilesRaises(table) == table = <<>>

\* add_metadata_flags computing directory_centrality before the graph is
\* rebuilt: the values come from the map the processor held on entry.
AddMetadataFlagsStale(self, table, c) ==
    LET churned == ComputeEffectiveChurn(table, c)
    IN  [processor |-> BuildDirectoryGraph(self, churned, c),
         df |-> [i \in DOMAIN churned |->
                   DetectNewFilesRow(
                     [directory_centrality |->
                          ComputeDirectoryCentrality(self, churned[i].dirs_touched)]
                     @@ [key_path_lines |-> DetectKeyPaths(churned[i])]
                     @@ churned[i])]]

\* add_metadata_flags: the churn columns, the graph (kept on the processor),
\* then directory_centrality, key_path_lines and the new-file columns.
AddMetadataFlags(self, table, c) ==
    LET churned == ComputeEffectiveChurn(table, c)
    IN  CHOOSE flagged \in
            {[processor |-> built,
              df |-> [i \in DOMAIN churned |->
                        DetectNewFilesRow(
                          [directory_centrality |->
                               ComputeDirectoryCentrality(built,
                                                          churned[i].dirs_touched)]
                          @@ [key_path_lines |-> DetectKeyPaths(churned[i])]
                          @@ churned[i])]] :
                 built \in {BuildDirectoryGraph(self, churned, c)}} : TRUE

\* ------------------------------------------------------------------ stages in sequence
\* DataProcessor.process_data followed by the effort scorer, as
\* _run_fds_analysis runs them on the clustered commits.

\* DataProcessor.__init__: self.config = config or self._default_config().
\* stable_sort is the build's sort behaviour, not an option of the dictionary.
ProcessorConfig(c) ==
    IF DOMAIN c \ {"stable_sort"} = {}
    THEN [DefaultConfig EXCEPT !.stable_sort = c.stable_sort]
    ELSE c

\* detect_noise reads self.config[...] for a matching commit: a KeyError when
\* the option is not in the dictionary.
NoiseKeyError(table, c) ==
    \E i \in DOMAIN table :
        \/ VendorMatch(table[i]) /\ "vendor_noise_factor" \notin DOMAIN c
        \/ WhitespaceMatch(table[i]) /\ "whitespace_noise_factor" \notin DOMAIN c

\* process_data: the clustered table sorted by commit_ts_utc, then
\* add_metadata_flags.  The result names the exception raised, if any, the
\* processor as the call leaves it and the table returned (the input when the
\* call raises).
ProcessData(self, table, c) ==
    LET sorted == PandasSortValues(table, "commit_ts_utc", FALSE, c.stable_sort)
    IN  IF NoiseKeyError(sorted, c)
        THEN [error |-> "KeyError", processor |-> self, df |-> table]
        ELSE IF DetectNewFilesRaises(sorted)
        THEN [error |-> "ValueError",
              processor |-> BuildDirectoryGraph(self, sorted, c),
              df |-> table]
        ELSE
        LET churned == ComputeEffectiveChurn(sorted, c)
            counts  == CochangeCount(churned)
        IN  IF DOMAIN counts # {} /\ "min_churn_for_edge" \notin DOMAIN c
            THEN [error |-> "KeyError",
                  processor |-> [self EXCEPT !.directory_graph = <<>>],
                  df |-> table]
            ELSE
            LET graph == GraphOf(counts, c)
            IN  IF /\ Nodes(graph) # {}
                   /\ {"pagerank_damping", "pagerank_iterations"} \ DOMAIN c # {}
                THEN [error |-> "KeyError",
                      processor |-> [self EXCEPT !.directory_graph = graph],
                      df |-> table]
                ELSE IF BuildDirectoryGraphRaises(churned, c)
                THEN [error |-> "PowerIterationFailedConvergence",
                      processor |-> BuildDirectoryGraph(self, churned, c),
                      df |-> table]
                ELSE [error |-> "none"] @@ AddMetadataFlags(self, sorted, c)

\* processor = DataProcessor(config); processor.process_data(clustered_csv)
ProcessDataStep ==
    /\ pc = "clustered"
    /\ \E done \in {ProcessData(processor, df, ProcessorConfig(cfg))} :
           /\ df' = done.df
           /\ processor' = done.processor
           /\ pc' = IF done.error = "none" THEN "processed" ELSE done.error
    /\ UNCHANGED <<cfg, commits, out, earlier, results>>

\* ------------------------------------------------------------------ configuration
\* The preprocessor constructed with a dictionary that is complete, partial,
\* empty or out of range.

\* c without the options in keys.
Without(c, keys) == [k \in (DOMAIN c) \ keys |-> c[k]]

\* The dictionary _run_fds_analysis builds: no vendor_noise_factor,
\* min_churn_for_edge or pagerank_damping, whitespace_noise_factor 0.99.
ServiceConfig ==
    Without([DefaultConfig EXCEPT !.whitespace_noise_factor = 99,
                                  !.time_window_days = 365],
            {"vendor_noise_factor", "min_churn_for_edge", "pagerank_damping",
             "alpha", "beta", "gap", "break_on_merge", "break_on_author"})

\* c with the default of every option it leaves out.
WithDefaults(c) ==
    [k \in DOMAIN DefaultConfig |-> IF k \in DOMAIN c THEN c[k] ELSE DefaultConfig[k]]

\* A negative weight or a damping outside (0, 1) among the options present.
InvalidOptions(c) ==
    \/ "vendor_noise_factor" \in DOMAIN c /\ c.vendor_noise_factor < 0
    \/ "whitespace_noise_factor" \in DOMAIN c /\ c.whitespace_noise_factor < 0
    \/ "pagerank_damping" \in DOMAIN c
         /\ (c.pagerank_damping <= 0 \/ c.pagerank_damping >= 100)

ConfigVariants ==
    {DefaultConfig,
     ServiceConfig,
     [stable_sort |-> TRUE],
     [stable_sort |-> TRUE, vendor_noise_factor |-> 50],
     Without(DefaultConfig, {"pagerank_iterations"}),
     [DefaultConfig EXCEPT !.vendor_noise_factor = -10],
     [DefaultConfig EXCEPT !.pagerank_damping = 150],
     [DefaultConfig EXCEPT !.pagerank_damping = 0]}

ConfigDirs ==
    {<<"src">>, <<"src", "kernel">>, <<"vendor/lib", "src">>,
     <<"kernel", "docs", "src">>}

ConfigRows ==
    {RawRow(0, "a@x", 0, n, 0, FALSE, d, <<"py">>, "fix typo")
        @@ [batch_id |-> 0] : n \in {1, 3}, d \in ConfigDirs}

InitConfig ==
    /\ pc = "clustered"
    /\ \E k \in 1..MaxConfigRows : \E f \in [1..k -> ConfigRows] : commits = Table(f)
    /\ cfg \in ConfigVariants
    /\ df = commits
    /\ out = <<>>
    /\ earlier = <<>>
    /\ processor = NewProcessor
    /\ results = <<>>

NextConfig == ProcessDataStep

SpecConfig == InitConfig /\ [][NextConfig]_vars

\* C17: a stage that receives an invalid configuration (a negative weight, a
\* damping outside (0,1)) fails with InvalidConfig instead of producing a
\* result.
C17_InvalidConfigFails ==
    (pc # "clustered" /\ InvalidOptions(cfg)) => pc = "InvalidConfig"

\* C18: a stage constructed with only some of its options uses the documented
\* default for every option left out and never fails because an option is
\* missing.
C18_DefaultsForMissingOptions ==
    /\ pc # "KeyError"
    /\ pc = "processed" =>
          df = ProcessData(NewProcessor, commits, WithDefaults(cfg)).df

\* The rounding of the fixed-point iteration: each pass truncates every entry,
\* and the damping keeps the accumulated loss below this many units of 1e-7.
PrSumTol == 100

\* C21: the centrality map left by the preprocessor has the nodes of the
\* directory graph as its keys and sums to 1 over them (to within PrSumTol);
\* for a graph without nodes it is the empty map and every commit's
\* directory_centrality is 0.
C21_CentralitySumsToOne ==
    pc = "processed" =>
        LET graph == processor.directory_graph
            rank  == processor.directory_centrality
        IN  /\ DOMAIN rank = Nodes(graph)
            /\ Nodes(graph) # {} =>
                  Abs(SumOver(rank, Nodes(graph)) - PrScale) <= PrSumTol
            /\ Nodes(graph) = {} =>
                  /\ rank = <<>>
                  /\ \A i \in DOMAIN df : df[i].directory_centrality = 0

\* A graph of three directories with unequal ranks has been built.
C21_Witness ==
    /\ pc = "processed"
    /\ Cardinality(Nodes(processor.directory_graph)) = 3
    /\ \E n, m \in Nodes(processor.directory_graph) :
          processor.directory_centrality[n] > processor.directory_centrality[m]
    /\ \E i \in DOMAIN df : df[i].directory_centrality > 0

\* The directories named by the commits of a table.
DirectoriesOf(table) == UNION {Range(table[i].dirs_touched) : i \in DOMAIN table}

\* C25: the edge between two distinct directories weighs the sum of
\* effective_churn over the commits that touch both, whatever the order in
\* which a commit lists them, and the edge is in the graph exactly when that
\* sum is >= min_churn_for_edge.
C25_EdgeWeightIsCochangeSum ==
    (pc = "processed" /\ "min_churn_for_edge" \in DOMAIN ProcessorConfig(cfg)) =>
        \A a, b \in DirectoriesOf(df) :
            a # b =>
                LET both == {i \in DOMAIN df :
                                {a, b} \subseteq Range(df[i].dirs_touched)}
                    total == SumOver([i \in DOMAIN df |-> df[i].effective_churn],
                                     both)
                    graph == processor.directory_graph
                IN  /\ {a, b} \in DOMAIN graph <=>
                           total >= ProcessorConfig(cfg).min_churn_for_edge
                    /\ {a, b} \in DOMAIN graph => graph[{a, b}] = total

\* Two commits list src and kernel in opposite orders and together reach the
\* threshold; kernel and docs are touched together below it.
C25_Witness ==
    /\ pc = "processed"
    /\ Len(df) = 2
    /\ df[1].dirs_touched = <<"src", "kernel">>
    /\ df[2].dirs_touched = <<"kernel", "docs", "src">>
    /\ df[1].effective_churn = 100
    /\ processor.directory_graph[{"src", "kernel"}] = 200
    /\ {"kernel", "docs"} \notin DOMAIN processor.directory_graph

Swap(s, i, j) ==
    [k \in DOMAIN s |-> IF k = i THEN s[j] ELSE IF k = j THEN s[i] ELSE s[k]]

\* The caller runs the stages again on the same records, two records of equal
\* commit_ts_utc having changed places in the input.
RerunPermuted ==
    /\ pc = "effort"
    /\ earlier = <<>>
    /\ processor = NewProcessor
    /\ results = <<>>
    /\ \E i, j \in DOMAIN commits :
          /\ i < j
          /\ commits[i].commit_ts_utc = commits[j].commit_ts_utc
          /\ commits' = Swap(commits, i, j)
    /\ df' = commits'
    /\ earlier' = df
    /\ pc' = "clustered"
    /\ UNCHANGED <<cfg, out, processor, results>>

\* Inputs: clustered commits in any input order, batch ids dense from 0 and
\* non-decreasing with the commit time.
RunRows ==
    {RawRow(0, a, t, n, 0, FALSE, <<"src">>, <<"py">>, "fix typo")
        @@ [batch_id |-> b] :
        a \in Authors, t \in {0, 1}, n \in {1, 3}, b \in {0, 1}}

ClusteredTable(t) ==
    /\ \A i, j \in DOMAIN t :
           t[i].commit_ts_utc < t[j].commit_ts_utc => t[i].batch_id <= t[j].batch_id
    /\ \A i \in DOMAIN t :
           t[i].batch_id = 0 \/ \E j \in DOMAIN t : t[j].batch_id = t[i].batch_id - 1

RunConfigs == {[DefaultConfig EXCEPT !.stable_sort = st] : st \in BOOLEAN}

InitRun ==
    /\ pc = "clustered"
    /\ \E k \in 0..MaxRunRows : \E f \in [1..k -> RunRows] :
          /\ ClusteredTable(f)
          /\ commits = Table(f)
    /\ cfg \in RunConfigs
    /\ df = commits
    /\ out = <<>>
    /\ earlier = <<>>
    /\ processor = NewProcessor
    /\ results = <<>>

NextRun == ProcessDataStep \/ ProcessAllBatchesStep \/ RerunPermuted

SpecRun == InitRun /\ [][NextRun]_vars

\* C10: permuting input records that share commit_ts_utc changes no output:
\* every commit ends with the same batch id, share, dominance_raw and churn
\* columns as in the run on the unpermuted input.
C10_PermutationInvariant ==
    (pc = "effort" /\ earlier # <<>>) => Range(df) = Range(earlier)

\* ------------------------------------------------------------------ pipeline
\* FDSPipeline: run_complete_pipeline calls the four stages in turn on one
\* set of calculator instances; each stage records its output in
\* self.results when it has finished, and re-raises what it catches.
\*
\* The effort of a commit and the importance of a batch are weighted sums of
\* MAD-Z columns over log1p, entropy, sqrt and exp.  Their values are inputs
\* here: the column effort_score of a commit and BatchImportances of its
\* batch id.  cfg.unwritable names the output file whose to_csv raises
\* OSError, "none" when every file can be written.

\* self.results[key] = value
Recorded(res, key, value) ==
    [k \in (DOMAIN res) \cup {key} |-> IF k = key THEN value ELSE res[k]]

\* ------- step 1
\* run_preprocessing: process_data, which saves the table before it returns,
\* then the result is recorded.
RunPreprocessing(self, res, table, c) ==
    LET done == ProcessData(self, table, ProcessorConfig(c))
    IN  IF done.error # "none"
        THEN [error |-> done.error, processor |-> done.processor,
              results |-> res, df |-> <<>>]
        ELSE IF c.unwritable = "processed_file"
        THEN [error |-> "OSError", processor |-> done.processor,
              results |-> res, df |-> <<>>]
        ELSE [error |-> "none", processor |-> done.processor,
              results |-> Recorded(res, "preprocessed_data", done.df),
              df |-> done.df]

\* ------- step 2
\* DeveloperEffortCalculator.process_all_batches with the effort column: the
\* rows of the batches processed, or every row with effort 0.0 when no batch
\* was processed.
ProcessAllBatchesWithEffort(table, c) ==
    LET scored == ProcessAllBatches(table, c)
    IN  [i \in DOMAIN scored |->
            IF "effort" \in DOMAIN scored[i] THEN scored[i]
            ELSE scored[i] @@ [effort |-> scored[i].effort_score]]

\* run_effort_calculation recording its output before it is saved.
RunEffortCalculationRecordsFirst(res, table, c) ==
    LET df_with_effort == ProcessAllBatchesWithEffort(table, c)
    IN  [error |-> IF c.unwritable = "effort_file" THEN "OSError" ELSE "none",
         results |-> Recorded(res, "effort_data", df_with_effort),
         df |-> df_with_effort]

\* run_effort_calculation: process_all_batches, to_csv, then
\* self.results['effort_data'] = df_with_effort.
RunEffortCalculation(res, table, c) ==
    LET df_with_effort == ProcessAllBatchesWithEffort(table, c)
    IN  IF c.unwritable = "effort_file"
        THEN [error |-> "OSError", results |-> res, df |-> table]
        ELSE [error |-> "none",
              results |-> Recorded(res, "effort_data", df_with_effort),
              df |-> df_with_effort]

\* ------- step 3
\* The batches the importance scorer processes: total effective_churn of at
\* least min_batch_churn.
ImportantBatch(batch, c) ==
    Len(batch) >= 1 /\ ColSum(batch, "effective_churn") >= c.min_batch_churn

\* batch_metrics_df: one row per processed batch, in order of first
\* appearance of the batch id.
BatchMetrics(table, c) ==
    LET ids  == Unique(table, "batch_id")
        kept == SelectSeq(ids, LAMBDA b : ImportantBatch(RowsOfBatch(table, b), c))
    IN  [k \in DOMAIN kept |->
            LET batch == RowsOfBatch(table, kept[k])
            IN  [batch_id           |-> kept[k],
                 type_raw           |-> CalculateBatchTypePriority(batch),
                 batch_start_ts     |-> ColMin(batch, "commit_ts_utc"),
                 batch_end_ts       |-> ColMax(batch, "commit_ts_utc"),
                 batch_commit_count |-> Len(batch),
                 batch_total_churn  |-> ColSum(batch, "effective_churn"),
                 importance         |-> BatchImportances[kept[k] + 1]]]

\* The importance column attached without the min_batch_churn filter.
WithBatchImportanceUnfiltered(table, c) ==
    [i \in DOMAIN table |->
        [batch_importance |-> BatchImportances[table[i].batch_id + 1]] @@ table[i]]

\* df['batch_importance'] = df['batch_id'].map(batch_importance_map).fillna(0.0),
\* and df['batch_importance'] = 0.0 without batch metrics: the column is
\* written into the table the caller passed.
WithBatchImportance(table, c) ==
    LET metrics == BatchMetrics(table, c)
    IN  [i \in DOMAIN table |->
            [batch_importance |->
                IF \E k \in DOMAIN metrics : metrics[k].batch_id = table[i].batch_id
                THEN BatchImportances[table[i].batch_id + 1] ELSE 0]
            @@ table[i]]

\* run_importance_calculation: process_all_batches, the two to_csv, then
\* importance_data and batch_metrics are recorded.  The table it is given is
\* the object recorded as effort_data, which therefore carries the new column
\* from the moment process_all_batches returns, saved or not.
RunImportanceCalculation(res, table, c) ==
    LET df_with_importance == WithBatchImportance(table, c)
        batch_metrics      == BatchMetrics(table, c)
        aliased == IF "effort_data" \in DOMAIN res
                   THEN [res EXCEPT !.effort_data = df_with_importance]
                   ELSE res
    IN  IF c.unwritable = "importance_file"
        THEN [error |-> "OSError", results |-> aliased, df |-> df_with_importance]
        ELSE [error |-> "none",
              results |-> Recorded(Recorded(aliased, "importance_data",
                                            df_with_importance),
                                   "batch_metrics", batch_metrics),
              df |-> df_with_importance]

\* ------- step 4
\* calculate_detailed_metrics aggregates the effort scorer's metric columns
\* (share, scale_z, ...): a KeyError from agg when the table lacks them, as it
\* does when the effort scorer processed no batch.
DetailedMetricsRaises(table) ==
    \E i \in DOMAIN table : "share" \notin DOMAIN table[i]

\* calculate_detailed_metrics: per author, total_contribution and
\* total_commits among its columns, sorted by total_contribution descending.
CalculateDetailedMetrics(table, c) ==
    LET keys == GroupKeys(table)
    IN  PandasSortValues(
            [k \in DOMAIN keys |->
                LET mine == RowsOfAuthor(table, keys[k])
                IN  [author_email       |-> keys[k],
                     total_contribution |-> Round4(ColSum(mine, "contribution")),
                     total_commits      |-> Len(mine)]],
            "total_contribution", TRUE, c.stable_sort)

\* generate_contribution_breakdown: one row per batch id (group keys
\* ascending) with total_contribution, importance ('first') and commit_count
\* among its columns, sorted by total_contribution descending.
GenerateContributionBreakdown(table, c) ==
    LET ids == SortValues(Unique(table, "batch_id"))
    IN  PandasSortValues(
            [k \in DOMAIN ids |->
                LET batch == RowsOfBatch(table, ids[k])
                IN  [batch_id           |-> ids[k],
                     total_contribution |-> Round4(ColSum(batch, "contribution")),
                     importance         |-> batch[1].batch_importance,
                     commit_count       |-> Len(batch)]],
            "total_contribution", TRUE, c.stable_sort)

\* run_fds_calculation: contributions, the author table (which writes
\* commit_date into the contributions table), the two breakdowns, the save,
\* and only then self.results.update(results).
RunFdsCalculation(res, table, c) ==
    LET df_with_contributions == CalculateContributions(table)
    IN  IF DetailedMetricsRaises(df_with_contributions)
        THEN [error |-> "KeyError", results |-> res, df |-> table]
        ELSE IF c.unwritable = "fds_results"
        THEN [error |-> "OSError", results |-> res, df |-> table]
        ELSE [error |-> "none",
              results |->
                  Recorded(Recorded(Recorded(Recorded(res,
                      "contributions", WithCommitDate(df_with_contributions)),
                      "fds_scores",
                          AggregateContributionsByAuthor(df_with_contributions, c)),
                      "detailed_metrics",
                          CalculateDetailedMetrics(df_with_contributions, c)),
                      "batch_breakdown",
                          GenerateContributionBreakdown(df_with_contributions, c)),
              df |-> table]

\* ------- run_complete_pipeline, stage by stage
PreprocessingStage ==
    /\ pc = "start"
    /\ \E stage \in {RunPreprocessing(processor, results, commits, cfg)} :
           /\ processor' = stage.processor
           /\ results' = stage.results
           /\ df' = stage.df
           /\ pc' = IF stage.error = "none" THEN "preprocessed" ELSE "failed"
           /\ out' = IF stage.error = "none" THEN stage.results ELSE out
    /\ UNCHANGED <<cfg, commits, earlier>>

EffortStage ==
    /\ pc = "preprocessed"
    /\ \E stage \in {RunEffortCalculation(results, df, cfg)} :
           /\ results' = stage.results
           /\ df' = stage.df
           /\ pc' = IF stage.error = "none" THEN "effort_done" ELSE "failed"
           /\ out' = IF stage.error = "none" THEN stage.results ELSE out
    /\ UNCHANGED <<cfg, commits, earlier, processor>>

ImportanceStage ==
    /\ pc = "effort_done"
    /\ \E stage \in {RunImportanceCalculation(results, df, cfg)} :
           /\ results' = stage.results
           /\ df' = stage.df
           /\ pc' = IF stage.error = "none" THEN "importance_done" ELSE "failed"
           /\ out' = IF stage.error = "none" THEN stage.results ELSE out
    /\ UNCHANGED <<cfg, commits, earlier, processor>>

\* The last stage; run_complete_pipeline then returns self.results.
FdsStage ==
    /\ pc = "importance_done"
    /\ \E stage \in {RunFdsCalculation(results, df, cfg)} :
           /\ results' = stage.results
           /\ df' = stage.df
           /\ pc' = IF stage.error = "none" THEN "completed" ELSE "failed"
           /\ out' = IF stage.error = "none" THEN stage.results ELSE out
    /\ UNCHANGED <<cfg, commits, earlier, processor>>

\* The caller calls run_complete_pipeline again on the same pipeline object,
\* with the same input file: the calculators and self.results are as the
\* first call left them.
RunAgain ==
    /\ pc \in {"completed", "failed"}
    /\ earlier = <<>>
    /\ earlier' = [outcome |-> pc, results |-> results]
    /\ pc' = "start"
    /\ df' = <<>>
    /\ out' = results
    /\ UNCHANGED <<cfg, commits, processor, results>>

\* Inputs: clustered commits of one or two batches, some touching two
\* directories, some without churn; a@x's commits have an effort of 0.5 and
\* b@x's of -0.5.
EffortScores == [e \in Authors |-> IF e = "a@x" THEN 10000 ELSE -10000]

PipelineRows ==
    {RawRow(0, a, 0, n, 0, FALSE, d, <<"py">>, "fix typo")
        @@ [batch_id |-> b, effort_score |-> EffortScores[a]] :
        a \in Authors, n \in {0, 3}, b \in {0, 1},
        d \in {<<"src">>, <<"src", "kernel">>}}

PipelineConfigs ==
    {[unwritable |-> u] @@ [DefaultConfig EXCEPT !.min_batch_size = m] :
        u \in {"none", "processed_file", "effort_file", "importance_file",
               "fds_results"},
        m \in {1, 2}}

InitPipeline ==
    /\ pc = "start"
    /\ \E k \in 0..MaxPipelineRows : \E f \in [1..k -> PipelineRows] :
          /\ ClusteredTable(f)
          /\ commits = Table(f)
    /\ cfg \in PipelineConfigs
    /\ df = <<>>
    /\ out = <<>>
    /\ earlier = <<>>
    /\ processor = NewProcessor
    /\ results = <<>>

NextPipeline ==
    PreprocessingStage \/ EffortStage \/ ImportanceStage \/ FdsStage \/ RunAgain

SpecPipeline == InitPipeline /\ [][NextPipeline]_vars

\* C11: a second run of the pipeline on the same pipeline object, input and
\* configuration ends as the first did and leaves the same results: the
\* graph, the centrality map and the results of the first run change nothing.
C11_SecondRunSameResults ==
    (earlier # <<>> /\ pc \in {"completed", "failed"}) =>
        (pc = earlier.outcome /\ results = earlier.results)

\* A second run has completed on a processor that the first run left with a
\* non-empty centrality map, and returned a non-empty author table.
C11_Witness ==
    /\ earlier # <<>>
    /\ pc = "completed"
    /\ earlier.outcome = "completed"
    /\ DOMAIN processor.directory_centrality # {}
    /\ results.fds_scores # <<>>
    /\ results = earlier.results

\* C15: with zero commits and every output writable no stage raises, and the
\* tables recorded are empty.
C15_EmptyInputEmptyOutputs ==
    (commits = <<>> /\ cfg.unwritable = "none") =>
        /\ pc # "failed"
        /\ \A k \in DOMAIN results : results[k] = <<>>

\* The tables of res hold everything the tables of base held: the same keys,
\* and under each key the same rows with at least the same columns and the
\* same values in them.
KeepsRecorded(res, base) ==
    /\ DOMAIN res = DOMAIN base
    /\ \A k \in DOMAIN base :
          /\ Len(res[k]) = Len(base[k])
          /\ \A i \in DOMAIN base[k] :
                /\ DOMAIN base[k][i] \subseteq DOMAIN res[k][i]
                /\ \A col \in DOMAIN base[k][i] : res[k][i][col] = base[k][i][col]

C20_StageLeavesInputTable ==
    [][(pc = "effort_done" /\ "effort_data" \in DOMAIN results')
           => results'.effort_data = results.effort_data]_vars

\* C23: after the importance scorer, the commits of one batch carry the same
\* importance: the importance of the batch in batch_metrics when the batch's
\* total effective_churn reaches min_batch_churn, and 0 when the batch was
\* skipped, in which case the contribution of each of its commits is 0.
C23_SameImportancePerBatch ==
    pc \in {"importance_done", "completed"} =>
        LET scored  == results.importance_data
            metrics == results.batch_metrics
            skipped(b) == ColSum(RowsOfBatch(scored, b), "effective_churn")
                              < cfg.min_batch_churn
        IN  /\ \A i, j \in DOMAIN scored :
                  scored[i].batch_id = scored[j].batch_id =>
                      scored[i].batch_importance = scored[j].batch_importance
            /\ \A i \in DOMAIN scored :
                  IF skipped(scored[i].batch_id)
                  THEN /\ scored[i].batch_importance = 0
                       /\ \A k \in DOMAIN metrics :
                             metrics[k].batch_id # scored[i].batch_id
                  ELSE \E k \in DOMAIN metrics :
                          /\ metrics[k].batch_id = scored[i].batch_id
                          /\ metrics[k].importance = scored[i].batch_importance
            /\ pc = "completed" =>
                  \A i \in DOMAIN results.contributions :
                      skipped(results.contributions[i].batch_id) =>
                          results.contributions[i].contribution = 0

\* A run has completed on two commits: batch 0 was scored, batch 1 had no
\* churn and was skipped.
C23_Witness ==
    /\ pc = "completed"
    /\ Len(results.importance_data) = 2
    /\ results.importance_data[1].batch_id = 0
    /\ results.importance_data[1].batch_importance # 0
    /\ results.importance_data[2].batch_id = 1
    /\ results.importance_data[2].effective_churn = 0
    /\ Len(results.batch_metrics) = 1

\* ------------------------------------------------------------------ analysis service
\* FDSAnalysisService of the web application.  In this specification
\*   cfg       is the scenario: whether the FDSAnalysis row exists, the status
\*             it was created with, the step that raises and whether the
\*             database accepts the save of the exception handler;
\*   df        is the database: the FDSAnalysis, DeveloperScore and
\*             BatchMetrics tables;
\*   processor is the thread's `analysis` model instance;
\*   results   is the dictionary returned by _run_fds_analysis;
\*   pc        is the position of the thread running _run_analysis;
\*   commits   is the position of the caller of start_analysis;
\*   out       is what the caller read back from the database;
\*   earlier   is the sequence of statuses the run has saved.

\* The things that can raise inside _run_analysis.
AnalysisSteps ==
    {"save_running", "fetch_commits", "torque_clustering", "fds_analysis",
     "save_summary", "save_scores", "save_batches", "save_completed",
     "cleanup"}

\* The FDSAnalysis row of the database, with the fields the run writes.
AnalysisRow(db) == db.analyses[1]

\* analysis.save(): the row takes the instance's field values.
SaveAnalysis(db, analysis) == [db EXCEPT !.analyses = <<analysis>>]

\* The dictionary _run_fds_analysis returns: two scored developers, one batch.
AnalysisResults ==
    [fds_scores |-> <<"a@x", "b@x">>, batch_metrics |-> <<0>>,
     total_commits |-> 2, total_batches |-> 1, total_developers |-> 2]

\* except Exception as e: analysis.status = 'failed';
\* analysis.error_message = str(e); analysis.save().  When that save raises
\* too, the exception leaves the thread and the row keeps what it had.
Fail(db, instance, e) ==
    LET analysis == [instance EXCEPT !.status = "failed", !.error_message = e]
    IN  /\ processor' = analysis
        /\ IF cfg.handler_save = "ok"
           THEN /\ df' = SaveAnalysis(db, analysis)
                /\ earlier' = Append(earlier, "failed")
                /\ pc' = "ended"
           ELSE /\ df' = db
                /\ earlier' = earlier
                /\ pc' = "died"

\* start_analysis: start the daemon thread and return.
StartAnalysis ==
    /\ commits = "created"
    /\ pc = "not_started"
    /\ pc' = "started"
    /\ commits' = "returned"
    /\ UNCHANGED <<cfg, df, out, earlier, processor, results>>

\* The caller, once start_analysis has returned: refresh_from_db() and the
\* counts of the saved DeveloperScore and BatchMetrics rows.
RefreshFromDb ==
    /\ commits = "returned"
    /\ cfg.exists
    /\ commits' = "read"
    /\ out' = [status |-> AnalysisRow(df).status,
               developer_count |-> Len(df.developer_scores),
               batch_count |-> Len(df.batch_metrics)]
    /\ UNCHANGED <<pc, cfg, df, earlier, processor, results>>

\* analysis = FDSAnalysis.objects.get(id=analysis_id).  DoesNotExist is caught
\* by the handler, which finds `analysis` unbound and raises in its turn.
GetAnalysis ==
    /\ pc = "started"
    /\ IF cfg.exists
       THEN pc' = "got" /\ processor' = AnalysisRow(df)
       ELSE pc' = "died" /\ processor' = processor
    /\ UNCHANGED <<cfg, commits, df, out, earlier, results>>

\* analysis.status = 'running'; started_at = now; analysis.save()
SetRunning ==
    /\ pc = "got"
    /\ IF cfg.fails = "save_running"
       THEN Fail(df, [processor EXCEPT !.status = "running",
                                           !.started_at = "now"],
                 "save_running")
       ELSE LET analysis == [processor EXCEPT !.status = "running",
                                              !.started_at = "now"]
            IN  /\ processor' = analysis
                /\ df' = SaveAnalysis(df, analysis)
                /\ earlier' = Append(earlier, "running")
                /\ pc' = "running"
    /\ UNCHANGED <<cfg, commits, out, results>>

\* Step 1: fetch_commits and process_commits_to_csv.
DataAcquisition ==
    /\ pc = "running"
    /\ IF cfg.fails = "fetch_commits"
       THEN Fail(df, processor, "fetch_commits")
       ELSE pc' = "acquired" /\ UNCHANGED <<df, earlier, processor>>
    /\ UNCHANGED <<cfg, commits, out, results>>

\* Step 2: _run_torque_clustering.
TorqueClustering ==
    /\ pc = "acquired"
    /\ IF cfg.fails = "torque_clustering"
       THEN Fail(df, processor, "torque_clustering")
       ELSE pc' = "clustered" /\ UNCHANGED <<df, earlier, processor>>
    /\ UNCHANGED <<cfg, commits, out, results>>

\* Step 3: results = self._run_fds_analysis(...)
FdsAnalysis ==
    /\ pc = "clustered"
    /\ IF cfg.fails = "fds_analysis"
       THEN Fail(df, processor, "fds_analysis") /\ results' = results
       ELSE /\ pc' = "scored"
            /\ results' = AnalysisResults
            /\ UNCHANGED <<df, earlier, processor>>
    /\ UNCHANGED <<cfg, commits, out>>

\* Step 4: _save_results_to_db: the summary fields and analysis.save(), one
\* DeveloperScore per row of fds_scores, one BatchMetrics per batch.  What was
\* written before a create raises stays written.
SaveResultsToDb ==
    /\ pc = "scored"
    /\ LET analysis == [processor EXCEPT
                            !.total_commits = results.total_commits,
                            !.total_batches = results.total_batches,
                            !.total_developers = results.total_developers]
           summarised == SaveAnalysis(df, analysis)
           with_scores == [summarised EXCEPT
                               !.developer_scores = results.fds_scores]
           with_batches == [with_scores EXCEPT
                                !.batch_metrics = results.batch_metrics]
       IN  CASE cfg.fails = "save_summary" ->
                    Fail(df, analysis, "save_summary")
             [] cfg.fails = "save_scores" ->
                    Fail(summarised, analysis, "save_scores")
             [] cfg.fails = "save_batches" ->
                    Fail(with_scores, analysis, "save_batches")
             [] OTHER ->
                    /\ processor' = analysis
                    /\ df' = with_batches
                    /\ earlier' = earlier
                    /\ pc' = "saved"
    /\ UNCHANGED <<cfg, commits, out, results>>

\* analysis.status = 'completed'; completed_at; execution_time; analysis.save()
Complete ==
    /\ pc = "saved"
    /\ IF cfg.fails = "save_completed"
       THEN Fail(df, [processor EXCEPT !.status = "completed",
                                           !.completed_at = "now"],
                 "save_completed")
       ELSE LET analysis == [processor EXCEPT !.status = "completed",
                                              !.completed_at = "now"]
            IN  /\ processor' = analysis
                /\ df' = SaveAnalysis(df, analysis)
                /\ earlier' = Append(earlier, "completed")
                /\ pc' = "completed"
    /\ UNCHANGED <<cfg, commits, out, results>>

\* Leaving `with tempfile.TemporaryDirectory()`: the directory is removed; an
\* error of the removal is raised inside the try block.
Cleanup ==
    /\ pc = "completed"
    /\ IF cfg.fails = "cleanup"
       THEN Fail(df, processor, "cleanup")
       ELSE pc' = "ended" /\ UNCHANGED <<df, earlier, processor>>
    /\ UNCHANGED <<cfg, commits, out, results>>

\* The row as FDSAnalysis.objects.create(...) leaves it.
NewAnalysis(status) ==
    [id |-> 1, status |-> status, started_at |-> "null",
     completed_at |-> "null", error_message |-> "null",
     total_commits |-> -1, total_batches |-> -1, total_developers |-> -1]

AnalysisScenarios ==
    [exists : BOOLEAN, initial_status : {"pending", "running"},
     fails : AnalysisSteps \cup {"none"}, handler_save : {"ok", "raises"}]

InitAnalysis ==
    /\ cfg \in AnalysisScenarios
    /\ pc = "not_started"
    /\ commits = "created"
    /\ df = [analyses |-> IF cfg.exists
                          THEN <<NewAnalysis(cfg.initial_status)>> ELSE <<>>,
             developer_scores |-> <<>>, batch_metrics |-> <<>>]
    /\ out = <<>>
    /\ earlier = <<>>
    /\ processor = <<>>
    /\ results = <<>>

NextAnalysis ==
    \/ StartAnalysis
    \/ RefreshFromDb
    \/ GetAnalysis
    \/ SetRunning
    \/ DataAcquisition
    \/ TorqueClustering
    \/ FdsAnalysis
    \/ SaveResultsToDb
    \/ Complete
    \/ Cleanup

SpecAnalysis == InitAnalysis /\ [][NextAnalysis]_vars

\* C26: once start_analysis has returned, the analysis read back from the
\* database is 'completed' when no step of the pipeline raises, and its
\* developer scores and batch metrics are saved.
C26_CompletedWhenStartReturns ==
    (commits = "read" /\ cfg.fails = "none") =>
        /\ out.status = "completed"
        /\ out.developer_count = Len(AnalysisResults.fds_scores)
        /\ out.batch_count = Len(AnalysisResults.batch_metrics)

TerminalStatuses == {"completed", "failed"}

\* C27: a run on an existing analysis has saved 'running' before any pipeline
\* step, and once it is over the row has exactly one terminal status saved:
\* 'completed' exactly when no step raised, otherwise 'failed' with an error
\* message; the row is not left 'pending' or 'running'.
C27_OneTerminalStatus ==
    cfg.exists =>
        /\ pc \in {"running", "acquired", "clustered", "scored", "saved"} =>
               AnalysisRow(df).status = "running"
        /\ pc \in {"ended", "died"} =>
               /\ AnalysisRow(df).status \in TerminalStatuses
               /\ Cardinality({i \in DOMAIN earlier :
                                   earlier[i] \in TerminalStatuses}) = 1
               /\ AnalysisRow(df).status = "completed" <=> cfg.fails = "none"
               /\ AnalysisRow(df).status = "failed" =>
                      AnalysisRow(df).error_message # "null"

\* ------------------------------------------------------------------ hierarchical torque clustering
\* torque_clustering(X) of utils/custom_torque_clustering.py (and of
\* doc/torque_clustering.py with its default masses), on samples of one
\* integer feature: one feature weight scales every distance alike, so the
\* nearest neighbours are those of the plain distance.  In this specification
\*   commits is X, the samples' coordinates (sample i is commits[i + 1]);
\*   df      is the list of clusters in the order of cluster_ids, each with
\*           its id, the sum of its samples' coordinates and its mass: the
\*           centre is sum / mass, kept exact;
\*   results is the list `connections`;
\*   earlier is the number of rounds of the merging loop so far;
\*   out     is what the function has computed once it has labelled.

\* Most samples handed to torque_clustering, and their largest coordinate.
MaxSamples == 4
MaxCoordinate == 3

\* A torque is an integer count of 1/TauUnits: it is a squared difference of
\* coordinate sums over a product of two masses, and the products of two
\* masses of at most five samples in all divide 12.
TauUnits == 12

FracLess(f, g) == f.num * g.den < g.num * f.den

\* Squared distance of the centres of clusters a and b.
DistSq(a, b) ==
    LET diff == a.sum * b.mass - b.sum * a.mass
    IN  Frac(diff * diff, (a.mass * b.mass) * (a.mass * b.mass))

\* np.argmin(dist_matrix, axis=1)[idx] with the diagonal at infinity: the
\* first position of the least distance.
NearestIdx(clusters, idx) ==
    CHOOSE j \in DOMAIN clusters \ {idx} :
        \A k \in DOMAIN clusters \ {idx} :
            \/ FracLess(DistSq(clusters[idx], clusters[j]),
                        DistSq(clusters[idx], clusters[k]))
            \/ /\ FracEq(DistSq(clusters[idx], clusters[j]),
                         DistSq(clusters[idx], clusters[k]))
               /\ j <= k

\* An edge only towards a strictly heavier neighbour.
DirectedEdgesStrict(clusters) ==
    LET all == [idx \in DOMAIN clusters |-> <<idx, NearestIdx(clusters, idx)>>]
        Lighter(e) == clusters[e[1]].mass < clusters[e[2]].mass
    IN  SelectSeq(all, Lighter)

\* for idx, cid in enumerate(cluster_ids): an edge (cid, nbr_cid) when
\* cluster_mass[cid] <= cluster_mass[nbr_cid]; as positions in cluster_ids.
DirectedEdges(clusters) ==
    LET all == [idx \in DOMAIN clusters |-> <<idx, NearestIdx(clusters, idx)>>]
        NotHeavier(e) == clusters[e[1]].mass <= clusters[e[2]].mass
    IN  SelectSeq(all, NotHeavier)

\* tau_val = M_val * dist_sq, in 1/TauUnits.
TauVal(a, b) ==
    LET diff == a.sum * b.mass - b.sum * a.mass
    IN  (diff * diff * TauUnits) \div (a.mass * b.mass)

\* The (tau, cid, nid) appended for the edges of a round.
RoundConnections(clusters, edges) ==
    [k \in DOMAIN edges |->
        [tau |-> TauVal(clusters[edges[k][1]], clusters[edges[k][2]]),
         i |-> clusters[edges[k][1]].id,
         j |-> clusters[edges[k][2]].id]]

RECURSIVE FindSet(_, _)
FindSet(parent, a) == IF parent[a] = a THEN a ELSE FindSet(parent, parent[a])

\* union_set(a, b): the root of smaller mass goes under the other, the root of
\* b under that of a when the masses are equal.
UnionSet(parent, mass, a, b) ==
    LET ra == FindSet(parent, a)
        rb == FindSet(parent, b)
    IN  IF ra = rb THEN parent
        ELSE IF mass[ra] < mass[rb] THEN [parent EXCEPT ![ra] = rb]
        ELSE [parent EXCEPT ![rb] = ra]

\* for cid, nid in directed_edges: union_set(cid, nid).  Each intermediate
\* forest is bound through a singleton set, which has it evaluated once.
RECURSIVE UnionAll(_, _, _)
UnionAll(parent, mass, conns) ==
    IF conns = <<>> THEN parent
    ELSE CHOOSE r \in {UnionAll(p, mass, Tail(conns)) :
                          p \in {UnionSet(parent, mass,
                                          Head(conns).i, Head(conns).j)}} : TRUE

\* The clusters after a round: one per root, in the order in which the roots
\* are met along cluster_ids, with the members' masses and weighted centres
\* added up.
MergeClusters(clusters, conns) ==
    LET ids == {clusters[k].id : k \in DOMAIN clusters}
        position == [c \in ids |->
                        (CHOOSE k \in DOMAIN clusters : clusters[k].id = c)]
        cluster_mass == [c \in ids |-> clusters[position[c]].mass]
        Rooted(parent) == [k \in DOMAIN clusters |->
                              [root |-> FindSet(parent, clusters[k].id)]]
        Merged(rooted, roots) ==
            [n \in DOMAIN roots |->
                LET members == {k \in DOMAIN clusters : rooted[k].root = roots[n]}
                IN  [id |-> roots[n],
                     sum |-> SumOver([k \in DOMAIN clusters |-> clusters[k].sum],
                                     members),
                     mass |-> SumOver([k \in DOMAIN clusters |-> clusters[k].mass],
                                      members)]]
    IN  CHOOSE new \in
            UNION {{Merged(rooted, roots) : roots \in {Unique(rooted, "root")}} :
                      rooted \in {Rooted(parent) :
                          parent \in {UnionAll([c \in ids |-> c],
                                               cluster_mass, conns)}}} : TRUE

\* One pass of `while True` that merges.
MergeRound ==
    /\ pc = "merging"
    /\ Len(df) > 1
    /\ \E edges \in {DirectedEdges(df)} :
          /\ edges # <<>>
          /\ \E conns \in {RoundConnections(df, edges)} :
                /\ results' = results \o conns
                /\ df' = MergeClusters(df, conns)
    /\ earlier' = earlier + 1
    /\ UNCHANGED <<pc, cfg, commits, out, processor>>

\* The two breaks of the loop: n_clusters <= 1, or no directed edge.
ExitLoop ==
    /\ pc = "merging"
    /\ IF Len(df) <= 1 THEN TRUE ELSE DirectedEdges(df) = <<>>
    /\ pc' = "merged"
    /\ UNCHANGED <<cfg, commits, df, out, earlier, processor, results>>

\* tgap_values: tau[j] / tau[j+1] as a fraction, infinite (den 0) when
\* tau[j+1] is 0.
TgapValues(sorted) ==
    [j \in 1..(Len(sorted) - 1) |-> Frac(sorted[j].tau, sorted[j + 1].tau)]

GapGreater(g, h) ==
    IF g.den = 0 THEN h.den # 0
    ELSE IF h.den = 0 THEN FALSE
    ELSE g.num * h.den > h.num * g.den

\* int(np.argmax(tgap_values)): the first position of the largest gap, from 0.
MaxGapIndex(tgap_values) ==
    (CHOOSE j \in DOMAIN tgap_values :
        \A k \in DOMAIN tgap_values :
            /\ ~GapGreater(tgap_values[k], tgap_values[j])
            /\ k < j => GapGreater(tgap_values[j], tgap_values[k])) - 1

\* uf_union(i, j): the root of j goes under the root of i.
UfUnion(uf_parent, i, j) ==
    LET ri == FindSet(uf_parent, i)
        rj == FindSet(uf_parent, j)
    IN  IF ri = rj THEN uf_parent ELSE [uf_parent EXCEPT ![rj] = ri]

\* for k in range(merges_to_remove, len(connections)): uf_union(cid_i, cid_j)
RECURSIVE UfUnionAll(_, _)
UfUnionAll(uf_parent, conns) ==
    IF conns = <<>> THEN uf_parent
    ELSE CHOOSE r \in {UfUnionAll(p, Tail(conns)) :
                          p \in {UfUnion(uf_parent,
                                         Head(conns).i, Head(conns).j)}} : TRUE

\* connections.sort(key=lambda x: x[0], reverse=True): by descending tau,
\* connections of equal tau in the order in which they were recorded.
RECURSIVE SortConnections(_)
SortConnections(conns) ==
    IF conns = <<>> THEN <<>>
    ELSE CHOOSE r \in {InsertByKey(conns[Len(conns)], front, "tau", TRUE) :
                          front \in {SortConnections(
                                         SubSeq(conns, 1, Len(conns) - 1))}} : TRUE

\* labels[i]: the roots numbered from 0 in the order in which the samples
\* meet them.
LabelsOf(uf_parent, n_samples) ==
    LET Numbered(rooted, roots) ==
            [s \in 1..n_samples |->
                (CHOOSE n \in DOMAIN roots : roots[n] = rooted[s].root) - 1]
    IN  CHOOSE labels \in
            UNION {{Numbered(rooted, roots) : roots \in {Unique(rooted, "root")}} :
                      rooted \in {[s \in 1..n_samples |->
                                      [root |-> FindSet(uf_parent, s - 1)]]}} : TRUE

\* The part of torque_clustering after the loop: np.arange(n_samples) when
\* nothing was connected; else the connections sorted by descending tau, the
\* number of clusters read off the largest gap, and the labels of the
\* components left by the connections from position optimal_clusters - 1 on.
TorqueLabels(X, connections) ==
    IF connections = <<>>
    THEN [labels |-> [s \in DOMAIN X |-> s - 1], connections |-> connections]
    ELSE LET Labelled(sorted) ==
                 LET tgap_values == TgapValues(sorted)
                     max_gap_index == IF tgap_values # <<>>
                                      THEN MaxGapIndex(tgap_values) ELSE 0
                     optimal_clusters == max_gap_index + 2
                     merges_to_remove == optimal_clusters - 1
                     kept == SubSeq(sorted, merges_to_remove + 1, Len(sorted))
                 IN  CHOOSE r \in
                         {[labels |-> LabelsOf(uf_parent, Len(X)),
                           connections |-> sorted,
                           optimal_clusters |-> optimal_clusters] :
                             uf_parent \in {UfUnionAll(
                                 [s \in 0..(Len(X) - 1) |-> s], kept)}} : TRUE
         IN  CHOOSE r \in {Labelled(sorted) :
                               sorted \in {SortConnections(connections)}} : TRUE

Label ==
    /\ pc = "merged"
    /\ \E done \in {TorqueLabels(commits, results)} :
          /\ out' = done
          /\ results' = done.connections
    /\ pc' = "labelled"
    /\ UNCHANGED <<cfg, commits, df, earlier, processor>>

Coordinates == 0..MaxCoordinate

InitTorque ==
    /\ pc = "merging"
    /\ \E n \in 1..MaxSamples : commits \in [1..n -> Coordinates]
    /\ df = [s \in DOMAIN commits |-> [id |-> s - 1, sum |-> commits[s], mass |-> 1]]
    /\ results = <<>>
    /\ earlier = 0
    /\ out = <<>>
    /\ cfg = DefaultConfig
    /\ processor = NewProcessor

NextTorque == MergeRound \/ ExitLoop \/ Label

\* The function runs to its return once called.
SpecTorque == InitTorque /\ [][NextTorque]_vars /\ WF_vars(NextTorque)

\* C29: the merging loop ends, for one sample or more: while two clusters or
\* more remain, a round records at least one connection and leaves strictly
\* fewer clusters, and the loop is left with a single cluster.
C29_MergeLoopTerminates ==
    /\ [][MergeRound => /\ Len(results') > Len(results)
                        /\ Len(df') < Len(df)]_vars
    /\ [](pc # "merging" => Len(df) = 1)
    /\ <>(pc # "merging")

\* Three rounds: four samples end as one cluster.
C29_Witness ==
    /\ pc = "labelled"
    /\ Len(commits) = 4
    /\ earlier >= 2
    /\ Len(df) = 1
    /\ df[1].mass = 4

\* C30: with two connections or more recorded, the labelling has exactly
\* optimal_clusters = (position of the largest gap of the descending torques)
\* + 2 distinct labels.
C30_LabelsAreOptimalClusters ==
    (pc = "labelled" /\ Len(results) >= 2) =>
        /\ out.optimal_clusters = MaxGapIndex(TgapValues(results)) + 2
        /\ Cardinality(Range(out.labels)) = out.optimal_clusters

====
